---- MODULE Spec2Model ----
(***************************************************************************)
(* Booking concurrency and interval-consistency engine of Bookingpms.      *)
(*                                                                         *)
(* Storage is the MySQL database behind Prisma: the tables resources,      *)
(* bookings, resource_blocks, notifications, message_logs and audit_logs.  *)
(* Every request handler is an async function; each await of a storage     *)
(* call is one step of the handler, and steps of different requests        *)
(* interleave freely.  Timestamps are instants on a discrete grid.         *)
(***************************************************************************)
EXTENDS Integers, Sequences, FiniteSets, TLC

(* ---------------------------------------------------------------------- *)
(* Bounds                                                                  *)
(* ---------------------------------------------------------------------- *)
\* Largest instant of the time grid: request intervals are drawn from 0..MaxTime.
MaxTime == 2
\* Largest value the wall clock reaches.
MaxNow == 1
\* Number of requests in one behaviour (each runs one handler, concurrently).
NumCalls == 2
\* Largest instant of the inputs of the storage overlap filters under test.
MaxProbe == 3
\* Largest calendar day of the inputs of timeRangesOverlap under test.
MaxProbeDay == 1
\* Largest instant (in minutes) of the inputs of calculateBookingPrice under test.
MaxPriceMinutes == 150
\* Largest hourly rate (in hundredths) of these inputs, besides the seeded rates.
MaxPriceRate == 20
\* Longest day sequence of the inputs of getAvailableGaps under test.
MaxDays == 5
\* Largest roomsAvailable of one day of these inputs.
MaxRooms == 3
\* Largest minNights of these inputs.
MaxMinNights == 3
\* Most calls one apiRequest makes upstream (API requests, and token
\* refreshes) before the model stops following it.
MaxUpstream == 4

Times == 0..MaxTime
Calls == 1..NumCalls
ProbeTimes == 0..MaxProbe
\* The timestamps timeRangesOverlap is tried on: a calendar day and an hour.
ProbeStamps == [day : 0..MaxProbeDay, hour : {0, 23}]

\* Resource ids a request can name; users that can be authenticated.
ResourceIds == {1, 2}
UserIds == {1, 2}
\* req.user.role === 'ADMIN' holds for these users.
AdminIds == {2}

VARIABLES
    now,            \* new Date(): the wall clock
    resources,      \* table resources: id -> row (exists = FALSE: no such row)
    bookings,       \* table bookings: set of rows
    blocks,         \* table resource_blocks: set of rows
    notifications,  \* table notifications
    messageLogs,    \* table message_logs
    auditLogs,      \* table audit_logs
    nextId,         \* fresh primary keys: [booking |-> n, block |-> n]
    calls,          \* the requests: handler, arguments, locals, position, outcome
    probe           \* input and output of a pure helper under test

vars == <<now, resources, bookings, blocks, notifications, messageLogs,
          auditLogs, nextId, calls, probe>>

store == <<resources, bookings, blocks>>
sinks == <<notifications, messageLogs, auditLogs>>

(* ---------------------------------------------------------------------- *)
(* src/unnamed/part_010 (utils/helpers)                                    *)
(* ---------------------------------------------------------------------- *)
\* new Date(x).getTime() of a timestamp given as calendar day and hour, in
\* hours since the epoch.
getTime(x) == x.day * 24 + x.hour

timeRangesOverlap_SwapLte(start1, end1, start2, end2) ==
    LET s1 == getTime(start1)
        e1 == getTime(end1)
        s2 == getTime(start2)
        e2 == getTime(end2)
    IN  s1 < e2 /\ s2 <= e1

timeRangesOverlap(start1, end1, start2, end2) ==
    LET s1 == getTime(start1)
        e1 == getTime(end1)
        s2 == getTime(start2)
        e2 == getTime(end2)
    IN  s1 < e2 /\ s2 < e1

\* Rounding of a non-negative rational n/d to the nearest integer, halves up.
RoundDiv(n, d) == (2 * n + d) \div (2 * d)

(* ---------------------------------------------------------------------- *)
(* Numbers of the JavaScript engine: IEEE 754 binary64                     *)
(*                                                                         *)
(* A natural number of any size is a sequence of limbs, least significant  *)
(* first, each in 0..LimbBase-1.  A positive double is [m, e], the value   *)
(* m * 2^e with 2^52 <= m < 2^53; zero is [m |-> <<>>, e |-> 0].           *)
(* ---------------------------------------------------------------------- *)
RECURSIVE IntBitLen(_)
IntBitLen(n) == IF n = 0 THEN 0 ELSE 1 + IntBitLen(n \div 2)

LimbBase == 2 ^ 13
LimbBits == IntBitLen(LimbBase) - 1
\* Bits of the significand of a double.
MantissaBits == 53

RECURSIVE BigTrim(_)
BigTrim(a) ==
    IF a = <<>> THEN <<>>
    ELSE IF a[Len(a)] = 0 THEN BigTrim(SubSeq(a, 1, Len(a) - 1))
    ELSE a

RECURSIVE BigFromInt(_)
BigFromInt(n) ==
    IF n = 0 THEN <<>> ELSE <<n % LimbBase>> \o BigFromInt(n \div LimbBase)

RECURSIVE BigToInt(_)
BigToInt(a) ==
    IF a = <<>> THEN 0 ELSE a[1] + LimbBase * BigToInt(Tail(a))

RECURSIVE BigAddFrom(_, _, _, _)
BigAddFrom(a, b, i, carry) ==
    IF i > Len(a) /\ i > Len(b)
    THEN IF carry = 0 THEN <<>> ELSE <<carry>>
    ELSE LET t == (IF i <= Len(a) THEN a[i] ELSE 0)
                  + (IF i <= Len(b) THEN b[i] ELSE 0) + carry
         IN  <<t % LimbBase>> \o BigAddFrom(a, b, i + 1, t \div LimbBase)

BigAdd(a, b) == BigAddFrom(a, b, 1, 0)

RECURSIVE BigMulSmallFrom(_, _, _, _)
BigMulSmallFrom(a, k, i, carry) ==
    IF i > Len(a)
    THEN BigFromInt(carry)
    ELSE LET t == a[i] * k + carry
         IN  <<t % LimbBase>> \o BigMulSmallFrom(a, k, i + 1, t \div LimbBase)

\* a * k for 0 <= k <= LimbBase.
BigMulSmall(a, k) == BigTrim(BigMulSmallFrom(a, k, 1, 0))

RECURSIVE BigMulFrom(_, _, _)
BigMulFrom(a, b, i) ==
    IF i > Len(b) THEN <<>>
    ELSE BigAdd(BigMulSmall(a, b[i]), <<0>> \o BigMulFrom(a, b, i + 1))

BigMul(a, b) == BigTrim(BigMulFrom(a, b, 1))

\* Quotient and remainder of the limbs i.. of a by d, 0 < d <= 2^17.
RECURSIVE BigDivSmallFrom(_, _, _)
BigDivSmallFrom(a, d, i) ==
    IF i > Len(a) THEN [q |-> <<>>, r |-> 0]
    ELSE LET h == BigDivSmallFrom(a, d, i + 1)
             t == h.r * LimbBase + a[i]
         IN  [q |-> <<t \div d>> \o h.q, r |-> t % d]

BigDivSmall(a, d) ==
    LET h == BigDivSmallFrom(a, d, 1) IN [q |-> BigTrim(h.q), r |-> h.r]

\* Number of bits of a (trimmed).
BigBitLen(a) ==
    IF a = <<>> THEN 0 ELSE LimbBits * (Len(a) - 1) + IntBitLen(a[Len(a)])

\* a * 2^k
BigShl(a, k) ==
    IF a = <<>> THEN <<>>
    ELSE [i \in 1..(k \div LimbBits) |-> 0] \o BigMulSmall(a, 2 ^ (k % LimbBits))

\* floor(a / 2^k)
BigShr(a, k) ==
    IF k \div LimbBits >= Len(a) THEN <<>>
    ELSE BigDivSmall(SubSeq(a, k \div LimbBits + 1, Len(a)), 2 ^ (k % LimbBits)).q

\* Bit i of a, bit 0 the least significant.
BigBit(a, i) ==
    IF i < 0 \/ i \div LimbBits >= Len(a) THEN 0
    ELSE (a[i \div LimbBits + 1] \div (2 ^ (i % LimbBits))) % 2

\* a mod 2^k = 0
BigLowZero(a, k) ==
    \A i \in 0..(k - 1) : BigBit(a, i) = 0

DoubleZero == [m |-> <<>>, e |-> 0]

\* The double nearest to q * 2^(-s), q an integer of 53 bits or more given
\* with the remainder it was cut at: rest = 0 none, 1 below half of the last
\* place of q, 2 half, 3 above half.  Round to nearest, ties to even.
DoubleRound(q, s, rest) ==
    LET k == BigBitLen(q) - MantissaBits
        u == BigShr(q, k)
        roundBit == IF k = 0 THEN (IF rest >= 2 THEN 1 ELSE 0) ELSE BigBit(q, k - 1)
        sticky == IF k = 0 THEN rest = 3
                  ELSE rest # 0 \/ ~BigLowZero(q, k - 1)
        up == roundBit = 1 /\ (sticky \/ BigBit(u, 0) = 1)
        m == IF up THEN BigAdd(u, <<1>>) ELSE u
    IN  IF BigBitLen(m) > MantissaBits
        THEN [m |-> BigShr(m, 1), e |-> k - s + 1]
        ELSE [m |-> m, e |-> k - s]

\* The double nearest to p / q, for integers 0 <= p, 0 < q <= 2^17: the result
\* of the division of two doubles holding p and q, and of parsing the decimal
\* numeral of p / q.
DoubleDiv(p, q) ==
    IF p = 0 THEN DoubleZero
    ELSE LET s == MantissaBits + IntBitLen(q)
             d == BigDivSmall(BigShl(BigFromInt(p), s), q)
             rest == IF d.r = 0 THEN 0
                     ELSE IF 2 * d.r < q THEN 1
                     ELSE IF 2 * d.r = q THEN 2 ELSE 3
         IN  DoubleRound(d.q, s, rest)

\* x * y of two doubles.
DoubleMul(x, y) ==
    IF x.m = <<>> \/ y.m = <<>> THEN DoubleZero
    ELSE LET r == DoubleRound(BigMul(x.m, y.m), 0, 0)
         IN  [m |-> r.m, e |-> r.e + x.e + y.e]

\* Number.prototype.toFixed(2) of a double 0 <= x < 2^52, as the integer n
\* of the numeral n / 100: the n for which n / 100 - x is closest to zero,
\* the larger n when there are two.
toFixed2(x) ==
    IF x.m = <<>> THEN 0
    ELSE LET n == BigMulSmall(x.m, 100)
         IN  IF x.e >= 0
             THEN BigToInt(BigShl(n, x.e))
             ELSE BigToInt(BigShr(n, 0 - x.e)) + BigBit(n, 0 - x.e - 1)

MinutesPerHour == 60
CentsPerUnit == 10 ^ 2

\* (end - start) / (1000 * 60 * 60) * parseFloat(pricePerHour), toFixed(2),
\* parseFloat.  Instants are in minutes; the rate (a DECIMAL(10, 2)) and the
\* result (the numeral of toFixed) are in hundredths.  Every step is the
\* floating-point operation of the engine; toFixed of a negative number is
\* '-' followed by toFixed of its magnitude.
calculateBookingPrice(startTime, endTime, pricePerHour) ==
    LET minutes == endTime - startTime
        magnitude == IF minutes < 0 THEN 0 - minutes ELSE minutes
        durationHours == DoubleDiv(magnitude, MinutesPerHour)
        product == DoubleMul(durationHours, DoubleDiv(pricePerHour, CentsPerUnit))
        n == toFixed2(product)
    IN  IF minutes < 0 THEN 0 - n ELSE n

(* ---------------------------------------------------------------------- *)
(* The overlap filters of the storage queries (Prisma where clauses)       *)
(* ---------------------------------------------------------------------- *)
\* BookingService.checkBookingOverlap: where, on one bookings row.
checkBookingOverlapWhere(row, resourceId, startTime, endTime, excludeBookingId) ==
    /\ row.resourceId = resourceId
    /\ row.status # "CANCELLED"
    /\ \/ (row.startTime <= startTime /\ row.endTime > startTime)
       \/ (row.startTime < endTime /\ row.endTime >= endTime)
       \/ (row.startTime >= startTime /\ row.endTime <= endTime)
    /\ (excludeBookingId # 0 => row.id # excludeBookingId)

checkBlockOverlapWhere_TouchingGte(row, resourceId, startTime, endTime) ==
    /\ row.resourceId = resourceId
    /\ \/ (row.startTime <= startTime /\ row.endTime >= startTime)
       \/ (row.startTime < endTime /\ row.endTime >= endTime)
       \/ (row.startTime >= startTime /\ row.endTime <= endTime)

checkBlockOverlapWhere_OnlyContained(row, resourceId, startTime, endTime) ==
    /\ row.resourceId = resourceId
    /\ (row.startTime >= startTime /\ row.endTime <= endTime)

\* BookingService.checkBlockOverlap: where, on one resource_blocks row.
checkBlockOverlapWhere(row, resourceId, startTime, endTime) ==
    /\ row.resourceId = resourceId
    /\ \/ (row.startTime <= startTime /\ row.endTime > startTime)
       \/ (row.startTime < endTime /\ row.endTime >= endTime)
       \/ (row.startTime >= startTime /\ row.endTime <= endTime)

txFindFirstWhere_OnlyContained(row, resourceId, start, end) ==
    /\ row.resourceId = resourceId
    /\ row.status # "CANCELLED"
    /\ (row.startTime >= start /\ row.endTime <= end)

\* createBooking, tx.booking.findFirst inside $transaction: where.
txFindFirstWhere(row, resourceId, start, end) ==
    /\ row.resourceId = resourceId
    /\ row.status # "CANCELLED"
    /\ \/ (row.startTime <= start /\ row.endTime > start)
       \/ (row.startTime < end /\ row.endTime >= end)
       \/ (row.startTime >= start /\ row.endTime <= end)

createBlockBookingWhere_AnyStatus(row, resourceId, start, end) ==
    /\ row.resourceId = resourceId
    /\ \/ (row.startTime <= start /\ row.endTime > start)
       \/ (row.startTime < end /\ row.endTime >= end)
       \/ (row.startTime >= start /\ row.endTime <= end)

\* BlockService.createBlock, prisma.booking.findFirst: where.
createBlockBookingWhere(row, resourceId, start, end) ==
    /\ row.resourceId = resourceId
    /\ row.status # "CANCELLED"
    /\ \/ (row.startTime <= start /\ row.endTime > start)
       \/ (row.startTime < end /\ row.endTime >= end)
       \/ (row.startTime >= start /\ row.endTime <= end)

\* BlockService.createBlock, prisma.resourceBlock.findFirst: where.
createBlockBlockWhere(row, resourceId, start, end) ==
    /\ row.resourceId = resourceId
    /\ \/ (row.startTime <= start /\ row.endTime > start)
       \/ (row.startTime < end /\ row.endTime >= end)
       \/ (row.startTime >= start /\ row.endTime <= end)

\* ResourceService.getAvailableResources, prisma.booking.findFirst: where.
availableBookingWhere(row, resourceId, startTime, endTime) ==
    /\ row.resourceId = resourceId
    /\ row.status # "CANCELLED"
    /\ \/ (row.startTime <= startTime /\ row.endTime > startTime)
       \/ (row.startTime < endTime /\ row.endTime >= endTime)
       \/ (row.startTime >= startTime /\ row.endTime <= endTime)

\* ResourceService.getAvailableResources, prisma.resourceBlock.findFirst: where.
availableBlockWhere(row, resourceId, startTime, endTime) ==
    /\ row.resourceId = resourceId
    /\ \/ (row.startTime <= startTime /\ row.endTime > startTime)
       \/ (row.startTime < endTime /\ row.endTime >= endTime)
       \/ (row.startTime >= startTime /\ row.endTime <= endTime)

\* BookingService.checkBookingOverlap: findFirst(...) !== null.
checkBookingOverlap(resourceId, startTime, endTime, excludeBookingId) ==
    \E row \in bookings :
        checkBookingOverlapWhere(row, resourceId, startTime, endTime, excludeBookingId)

checkBlockOverlap_OtherResources(resourceId, startTime, endTime) ==
    \E row \in blocks :
        checkBlockOverlapWhere(row, row.resourceId, startTime, endTime)

\* BookingService.checkBlockOverlap: findFirst(...) !== null.
checkBlockOverlap(resourceId, startTime, endTime) ==
    \E row \in blocks : checkBlockOverlapWhere(row, resourceId, startTime, endTime)

(* ---------------------------------------------------------------------- *)
(* Rows, requests                                                          *)
(* ---------------------------------------------------------------------- *)
NoResource == [exists |-> FALSE, status |-> "AVAILABLE", pricePerHour |-> 0]
Resource(status, pricePerHour) ==
    [exists |-> TRUE, status |-> status, pricePerHour |-> pricePerHour]

Booking(id, userId, resourceId, startTime, endTime, totalPrice, status) ==
    [id |-> id, userId |-> userId, resourceId |-> resourceId,
     startTime |-> startTime, endTime |-> endTime,
     totalPrice |-> totalPrice, status |-> status]

\* createdBy = 0: the insert names no creator.
Block(id, resourceId, startTime, endTime, createdBy) ==
    [id |-> id, resourceId |-> resourceId, startTime |-> startTime,
     endTime |-> endTime, createdBy |-> createdBy]

NoError == [statusCode |-> 0, message |-> ""]
Error(statusCode, message) == [statusCode |-> statusCode, message |-> message]

\* A request that has not arrived yet.
IdleCall ==
    [op |-> "idle", pc |-> "idle", userId |-> 0, isAdmin |-> FALSE,
     resourceId |-> 0, targetId |-> 0, startTime |-> 0, endTime |-> 0,
     pricePerHour |-> 0, totalPrice |-> 0, ownerId |-> 0, found |-> "",
     result |-> 0,
     attempts |-> <<>>,     \* the side effects called so far, in order
     failed |-> {},         \* those of them that rejected
     error |-> NoError]

Throw(p, statusCode, message) ==
    calls' = [calls EXCEPT ![p].pc = "thrown",
                           ![p].error = Error(statusCode, message)]

Goto(p, pc) == calls' = [calls EXCEPT ![p].pc = pc]

\* A side effect was called and resolved: on to pc.
Resolved(p, effect, pc) ==
    calls' = [calls EXCEPT ![p].pc = pc,
                           ![p].attempts = Append(@, effect)]

Caught_Rethrow(p, effect, pc) ==
    calls' = [calls EXCEPT ![p].pc = "thrown",
                           ![p].attempts = Append(@, effect),
                           ![p].failed = @ \cup {effect},
                           ![p].error = Error(500, "Internal server error")]

Caught_Retry(p, effect, pc) ==
    calls' = [calls EXCEPT ![p].attempts = Append(@, effect),
                           ![p].failed = @ \cup {effect}]

\* A side effect was called and rejected, the rejection was caught: on to pc.
Caught(p, effect, pc) ==
    calls' = [calls EXCEPT ![p].pc = pc,
                           ![p].attempts = Append(@, effect),
                           ![p].failed = @ \cup {effect}]

At(p, op, pc) == calls[p].op = op /\ calls[p].pc = pc

(* ---------------------------------------------------------------------- *)
(* Initial storage: the rows of the seed script, on the time grid          *)
(* ---------------------------------------------------------------------- *)
SeedPrice == 5000
SeedPrice2 == 3500

\* The inputs calculateBookingPrice is tried on: instants in minutes, rates
\* in hundredths.
PriceStarts == {0, 30}
PriceEnds == 0..MaxPriceMinutes
PriceRates == 0..MaxPriceRate \cup {SeedPrice, SeedPrice2}

Seeds ==
    { [resources |-> (1 :> Resource("AVAILABLE", SeedPrice) @@ 2 :> NoResource),
       bookings  |-> {},
       blocks    |-> {}],
      [resources |-> (1 :> Resource("AVAILABLE", SeedPrice)
                      @@ 2 :> Resource("MAINTENANCE", SeedPrice)),
       bookings  |-> {Booking(1, 1, 1, 1, 2, 83, "CONFIRMED")},
       blocks    |-> {}],
      [resources |-> (1 :> Resource("AVAILABLE", SeedPrice)
                      @@ 2 :> Resource("UNAVAILABLE", SeedPrice)),
       bookings  |-> {Booking(1, 1, 1, 1, 2, 83, "PENDING")},
       blocks    |-> {Block(1, 1, 0, 1, 2)}],
      [resources |-> (1 :> Resource("AVAILABLE", SeedPrice)
                      @@ 2 :> Resource("AVAILABLE", SeedPrice2)),
       bookings  |-> {Booking(1, 2, 1, 0, 1, 83, "CANCELLED"),
                      Booking(2, 2, 2, 0, 1, 58, "COMPLETED")},
       blocks    |-> {Block(1, 1, 0, 1, 2)}] }

MaxId(rows) == IF rows = {} THEN 0 ELSE CHOOSE n \in {r.id : r \in rows} :
                                          \A r \in rows : r.id <= n

NoProbe == [fn |-> "none", in |-> <<>>, done |-> FALSE, out |-> <<>>]

Init ==
    /\ now = 0
    /\ \E seed \in Seeds :
        /\ resources = seed.resources
        /\ bookings = seed.bookings
        /\ blocks = seed.blocks
        /\ nextId = [booking |-> MaxId(seed.bookings) + 1,
                     block |-> MaxId(seed.blocks) + 1]
    /\ notifications = {}
    /\ messageLogs = {}
    /\ auditLogs = {}
    /\ calls = [p \in Calls |-> IdleCall]
    /\ probe = NoProbe

(* ---------------------------------------------------------------------- *)
(* The clock                                                               *)
(* ---------------------------------------------------------------------- *)
Tick ==
    /\ now < MaxNow
    /\ now' = now + 1
    /\ UNCHANGED <<store, sinks, nextId, calls, probe>>

(* ---------------------------------------------------------------------- *)
(* BookingService.createBooking                                            *)
(* ---------------------------------------------------------------------- *)
createBooking_intervalCheck_PastFirst(start, end, clock) ==
    IF start < clock
    THEN Error(400, "Cannot book in the past")
    ELSE IF start >= end
    THEN Error(400, "End time must be after start time")
    ELSE NoError

createBooking_intervalCheck_AllowEmpty(start, end, clock) ==
    IF start > end
    THEN Error(400, "End time must be after start time")
    ELSE IF start < clock
    THEN Error(400, "Cannot book in the past")
    ELSE NoError

\* The two interval checks before the first await; NoError: none throws.
createBooking_intervalCheck(start, end, clock) ==
    IF start >= end
    THEN Error(400, "End time must be after start time")
    ELSE IF start < clock
    THEN Error(400, "Cannot book in the past")
    ELSE NoError

createBooking_resourceCheck_OnlyUnavailable(resource) ==
    IF ~resource.exists
    THEN Error(404, "Resource not found")
    ELSE IF resource.status = "UNAVAILABLE"
    THEN Error(400, "Resource is not available for booking")
    ELSE NoError

\* The two checks of the resource row read; NoError: none throws.
createBooking_resourceCheck(resource) ==
    IF ~resource.exists
    THEN Error(404, "Resource not found")
    ELSE IF resource.status # "AVAILABLE"
    THEN Error(400, "Resource is not available for booking")
    ELSE NoError

\* The request arrives; the handler runs to its first await: the interval
\* checks, then the call of prisma.resource.findUnique.
createBooking_Validate(p) ==
    /\ calls[p].pc = "idle"
    /\ \E userId \in UserIds, resourceId \in ResourceIds,
          startTime \in Times, endTime \in Times :
        LET c == [IdleCall EXCEPT !.op = "createBooking", !.userId = userId,
                                  !.resourceId = resourceId,
                                  !.startTime = startTime, !.endTime = endTime]
            e == createBooking_intervalCheck(startTime, endTime, now)
        IN  calls' = [calls EXCEPT ![p] =
                IF e # NoError
                THEN [c EXCEPT !.pc = "thrown", !.error = e]
                ELSE [c EXCEPT !.pc = "findResource"]]
    /\ UNCHANGED <<now, store, sinks, nextId, probe>>

\* prisma.resource.findUnique resolves; the two resource checks.
createBooking_FindResource(p) ==
    /\ At(p, "createBooking", "findResource")
    /\ LET resource == resources[calls[p].resourceId]
           e == createBooking_resourceCheck(resource)
       IN  IF e # NoError
           THEN Throw(p, e.statusCode, e.message)
           ELSE calls' = [calls EXCEPT ![p].pc = "checkBlockOverlap",
                                       ![p].pricePerHour = resource.pricePerHour]
    /\ UNCHANGED <<now, store, sinks, nextId, probe>>

\* this.checkBlockOverlap resolves.
createBooking_CheckBlockOverlap(p) ==
    /\ At(p, "createBooking", "checkBlockOverlap")
    /\ IF checkBlockOverlap(calls[p].resourceId, calls[p].startTime, calls[p].endTime)
       THEN Throw(p, 409, "This time slot is blocked")
       ELSE Goto(p, "checkBookingOverlap")
    /\ UNCHANGED <<now, store, sinks, nextId, probe>>

\* this.checkBookingOverlap resolves; the price; $transaction is entered.
createBooking_CheckBookingOverlap(p) ==
    /\ At(p, "createBooking", "checkBookingOverlap")
    /\ IF checkBookingOverlap(calls[p].resourceId, calls[p].startTime, calls[p].endTime, 0)
       THEN Throw(p, 409, "This time slot is already booked")
       ELSE calls' = [calls EXCEPT
                ![p].pc = "txFindFirst",
                ![p].totalPrice = calculateBookingPrice(
                    calls[p].startTime, calls[p].endTime, calls[p].pricePerHour)]
    /\ UNCHANGED <<now, store, sinks, nextId, probe>>

\* tx.booking.findFirst resolves: a plain (non-locking) read of the
\* committed rows, the transaction runs at the default isolation level.
createBooking_TxFindFirst(p) ==
    /\ At(p, "createBooking", "txFindFirst")
    /\ IF \E row \in bookings :
            txFindFirstWhere(row, calls[p].resourceId, calls[p].startTime, calls[p].endTime)
       THEN Throw(p, 409, "This time slot was just booked by another user")
       ELSE Goto(p, "txCreate")
    /\ UNCHANGED <<now, store, sinks, nextId, probe>>

createBooking_TxCreate_DefaultStatus(p) ==
    /\ At(p, "createBooking", "txCreate")
    /\ IF ~resources[calls[p].resourceId].exists
       THEN /\ Throw(p, 400, "Foreign key constraint failed")
            /\ UNCHANGED <<bookings, nextId>>
       ELSE /\ bookings' = bookings \cup
                {Booking(nextId.booking, calls[p].userId, calls[p].resourceId,
                         calls[p].startTime, calls[p].endTime,
                         calls[p].totalPrice, "PENDING")}
            /\ nextId' = [nextId EXCEPT !.booking = @ + 1]
            /\ calls' = [calls EXCEPT ![p].pc = "notify",
                                      ![p].result = nextId.booking]
    /\ UNCHANGED <<now, resources, blocks, sinks, probe>>

\* tx.booking.create resolves and the transaction commits.  The insert is
\* rejected by bookings_resourceId_fkey when the resource row is gone (P2003).
createBooking_TxCreate(p) ==
    /\ At(p, "createBooking", "txCreate")
    /\ IF ~resources[calls[p].resourceId].exists
       THEN /\ Throw(p, 400, "Foreign key constraint failed")
            /\ UNCHANGED <<bookings, nextId>>
       ELSE /\ bookings' = bookings \cup
                {Booking(nextId.booking, calls[p].userId, calls[p].resourceId,
                         calls[p].startTime, calls[p].endTime,
                         calls[p].totalPrice, "CONFIRMED")}
            /\ nextId' = [nextId EXCEPT !.booking = @ + 1]
            /\ calls' = [calls EXCEPT ![p].pc = "notify",
                                      ![p].result = nextId.booking]
    /\ UNCHANGED <<now, resources, blocks, sinks, probe>>

\* NotificationService.notifyBookingCreated resolves or rejects (caught).
createBooking_Notify(p) ==
    /\ At(p, "createBooking", "notify")
    /\ \/ /\ notifications' = notifications \cup
                {[userId |-> calls[p].userId, type |-> "BOOKING_CREATED",
                  bookingId |-> calls[p].result]}
          /\ Resolved(p, "notification", "sendMessage")
       \/ /\ UNCHANGED notifications
          /\ Caught(p, "notification", "sendMessage")
    /\ UNCHANGED <<now, store, messageLogs, auditLogs, nextId, probe>>

\* prisma.user.findUnique and MessageService.sendBookingConfirmation resolve,
\* or one of them rejects (caught).
createBooking_SendConfirmation(p) ==
    /\ At(p, "createBooking", "sendMessage")
    /\ \/ /\ messageLogs' = messageLogs \cup
                {[userId |-> calls[p].userId, content |-> "confirmed",
                  bookingId |-> calls[p].result]}
          /\ Resolved(p, "message", "auditLog")
       \/ /\ UNCHANGED messageLogs
          /\ Caught(p, "message", "auditLog")
    /\ UNCHANGED <<now, store, notifications, auditLogs, nextId, probe>>

\* AuditService.log resolves (it swallows its own failure); return booking.
createBooking_AuditLog(p) ==
    /\ At(p, "createBooking", "auditLog")
    /\ \/ /\ auditLogs' = auditLogs \cup
                {[userId |-> calls[p].userId, action |-> "BOOKING_CREATE",
                  entityId |-> calls[p].result]}
          /\ Resolved(p, "audit", "returned")
       \/ /\ UNCHANGED auditLogs
          /\ Caught(p, "audit", "returned")
    /\ UNCHANGED <<now, store, notifications, messageLogs, nextId, probe>>

(* ---------------------------------------------------------------------- *)
(* BookingController.cancel, BookingService.cancelBooking                  *)
(* ---------------------------------------------------------------------- *)
cancelBooking_check_CancelledFirst(found, userId, isAdmin) ==
    IF found = {}
    THEN Error(404, "Booking not found")
    ELSE LET booking == CHOOSE row \in found : TRUE
         IN  IF booking.status = "CANCELLED"
             THEN Error(400, "Booking is already cancelled")
             ELSE IF ~isAdmin /\ booking.userId # userId
             THEN Error(403, "Not authorized to cancel this booking")
             ELSE NoError

cancelBooking_check_NoCancelledCheck(found, userId, isAdmin) ==
    IF found = {}
    THEN Error(404, "Booking not found")
    ELSE LET booking == CHOOSE row \in found : TRUE
         IN  IF ~isAdmin /\ booking.userId # userId
             THEN Error(403, "Not authorized to cancel this booking")
             ELSE NoError

\* The three checks of the row read (found: the rows with the id asked for);
\* NoError: none throws.
cancelBooking_check(found, userId, isAdmin) ==
    IF found = {}
    THEN Error(404, "Booking not found")
    ELSE LET booking == CHOOSE row \in found : TRUE
         IN  IF ~isAdmin /\ booking.userId # userId
             THEN Error(403, "Not authorized to cancel this booking")
             ELSE IF booking.status = "CANCELLED"
             THEN Error(400, "Booking is already cancelled")
             ELSE NoError

\* The request arrives (the controller passes req.user.id and whether
\* req.user.role is ADMIN) and prisma.booking.findUnique resolves; the checks.
cancelBooking_FindBooking(p) ==
    /\ calls[p].pc = "idle"
    /\ \E bookingId \in 1..nextId.booking, userId \in UserIds :
        LET isAdmin == userId \in AdminIds
            c == [IdleCall EXCEPT !.op = "cancelBooking", !.targetId = bookingId,
                                  !.userId = userId, !.isAdmin = isAdmin]
            found == {row \in bookings : row.id = bookingId}
            e == cancelBooking_check(found, userId, isAdmin)
        IN  calls' = [calls EXCEPT ![p] =
                IF e # NoError
                THEN [c EXCEPT !.pc = "thrown", !.error = e]
                ELSE LET booking == CHOOSE row \in found : TRUE
                     IN  [c EXCEPT !.pc = "update",
                                   !.ownerId = booking.userId,
                                   !.resourceId = booking.resourceId,
                                   !.found = booking.status]]
    /\ UNCHANGED <<now, store, sinks, nextId, probe>>

\* prisma.booking.update resolves; it rejects when the row is gone (P2025).
cancelBooking_Update(p) ==
    /\ At(p, "cancelBooking", "update")
    /\ IF \E row \in bookings : row.id = calls[p].targetId
       THEN /\ bookings' = {IF row.id = calls[p].targetId
                            THEN [row EXCEPT !.status = "CANCELLED"]
                            ELSE row : row \in bookings}
            /\ calls' = [calls EXCEPT ![p].pc = "notify",
                                      ![p].result = calls[p].targetId]
       ELSE /\ Throw(p, 404, "Record not found")
            /\ UNCHANGED bookings
    /\ UNCHANGED <<now, resources, blocks, sinks, nextId, probe>>

\* NotificationService.notifyBookingCancelled resolves or rejects (caught).
cancelBooking_Notify(p) ==
    /\ At(p, "cancelBooking", "notify")
    /\ \/ /\ notifications' = notifications \cup
                {[userId |-> calls[p].ownerId, type |-> "BOOKING_CANCELLED",
                  bookingId |-> calls[p].targetId]}
          /\ Resolved(p, "notification", "sendMessage")
       \/ /\ UNCHANGED notifications
          /\ Caught(p, "notification", "sendMessage")
    /\ UNCHANGED <<now, store, messageLogs, auditLogs, nextId, probe>>

\* prisma.user.findUnique and MessageService.sendBookingCancellation resolve,
\* or one of them rejects (caught).
cancelBooking_SendCancellation(p) ==
    /\ At(p, "cancelBooking", "sendMessage")
    /\ \/ /\ messageLogs' = messageLogs \cup
                {[userId |-> calls[p].ownerId, content |-> "cancelled",
                  bookingId |-> calls[p].targetId]}
          /\ Resolved(p, "message", "auditLog")
       \/ /\ UNCHANGED messageLogs
          /\ Caught(p, "message", "auditLog")
    /\ UNCHANGED <<now, store, notifications, auditLogs, nextId, probe>>

\* AuditService.log resolves (it swallows its own failure); return updatedBooking.
cancelBooking_AuditLog(p) ==
    /\ At(p, "cancelBooking", "auditLog")
    /\ \/ /\ auditLogs' = auditLogs \cup
                {[userId |-> calls[p].userId, action |-> "BOOKING_CANCEL",
                  entityId |-> calls[p].targetId]}
          /\ Resolved(p, "audit", "returned")
       \/ /\ UNCHANGED auditLogs
          /\ Caught(p, "audit", "returned")
    /\ UNCHANGED <<now, store, notifications, messageLogs, nextId, probe>>

(* ---------------------------------------------------------------------- *)
(* BlockService.createBlock, BlockService.deleteBlock                      *)
(* ---------------------------------------------------------------------- *)
\* The request arrives, the interval check, prisma.resource.findUnique resolves.
createBlock_FindResource(p) ==
    /\ calls[p].pc = "idle"
    /\ \E userId \in AdminIds, resourceId \in ResourceIds,
          startTime \in Times, endTime \in Times :
        LET c == [IdleCall EXCEPT !.op = "createBlock", !.userId = userId,
                                  !.isAdmin = TRUE, !.resourceId = resourceId,
                                  !.startTime = startTime, !.endTime = endTime]
        IN  calls' = [calls EXCEPT ![p] =
                IF startTime >= endTime
                THEN [c EXCEPT !.pc = "thrown",
                               !.error = Error(400, "End time must be after start time")]
                ELSE IF ~resources[resourceId].exists
                THEN [c EXCEPT !.pc = "thrown",
                               !.error = Error(404, "Resource not found")]
                ELSE [c EXCEPT !.pc = "findBooking"]]
    /\ UNCHANGED <<now, store, sinks, nextId, probe>>

\* prisma.booking.findFirst resolves.
createBlock_FindBooking(p) ==
    /\ At(p, "createBlock", "findBooking")
    /\ IF \E row \in bookings :
            createBlockBookingWhere(row, calls[p].resourceId, calls[p].startTime, calls[p].endTime)
       THEN Throw(p, 409, "Cannot block time slot with existing bookings")
       ELSE Goto(p, "findBlock")
    /\ UNCHANGED <<now, store, sinks, nextId, probe>>

\* prisma.resourceBlock.findFirst resolves.
createBlock_FindBlock(p) ==
    /\ At(p, "createBlock", "findBlock")
    /\ IF \E row \in blocks :
            createBlockBlockWhere(row, calls[p].resourceId, calls[p].startTime, calls[p].endTime)
       THEN Throw(p, 409, "Block overlaps with existing block")
       ELSE Goto(p, "create")
    /\ UNCHANGED <<now, store, sinks, nextId, probe>>

\* prisma.resourceBlock.create resolves or rejects.  The data names no
\* createdBy, a NOT NULL column without default: storage that enforces the
\* column rejects the insert, storage that does not keeps the row without a
\* creator.  resource_blocks_resourceId_fkey rejects it when the resource
\* row is gone.
createBlock_Create(p) ==
    /\ At(p, "createBlock", "create")
    /\ \/ /\ resources[calls[p].resourceId].exists
          /\ blocks' = blocks \cup
                {Block(nextId.block, calls[p].resourceId,
                       calls[p].startTime, calls[p].endTime, 0)}
          /\ nextId' = [nextId EXCEPT !.block = @ + 1]
          /\ calls' = [calls EXCEPT ![p].pc = "auditLog",
                                    ![p].result = nextId.block]
       \/ /\ Throw(p, 500, "Invalid prisma.resourceBlock.create() invocation")
          /\ UNCHANGED <<blocks, nextId>>
    /\ UNCHANGED <<now, resources, bookings, sinks, probe>>

\* AuditService.log resolves (it swallows its own failure); return block.
createBlock_AuditLog(p) ==
    /\ At(p, "createBlock", "auditLog")
    /\ \/ /\ auditLogs' = auditLogs \cup
                {[userId |-> calls[p].userId, action |-> "BLOCK_CREATE",
                  entityId |-> calls[p].result]}
          /\ Resolved(p, "audit", "returned")
       \/ /\ UNCHANGED auditLogs
          /\ Caught(p, "audit", "returned")
    /\ UNCHANGED <<now, store, notifications, messageLogs, nextId, probe>>

\* The request arrives and prisma.resourceBlock.findUnique resolves; the
\* row read (block) stays with the request.
deleteBlock_FindBlock(p) ==
    /\ calls[p].pc = "idle"
    /\ \E blockId \in 1..nextId.block, userId \in AdminIds :
        LET c == [IdleCall EXCEPT !.op = "deleteBlock", !.targetId = blockId,
                                  !.userId = userId, !.isAdmin = TRUE]
        IN  calls' = [calls EXCEPT ![p] =
                IF \E row \in blocks : row.id = blockId
                THEN LET block == CHOOSE row \in blocks : row.id = blockId
                     IN  [c EXCEPT !.pc = "delete",
                                   !.resourceId = block.resourceId,
                                   !.startTime = block.startTime,
                                   !.endTime = block.endTime]
                ELSE [c EXCEPT !.pc = "thrown",
                               !.error = Error(404, "Block not found")]]
    /\ UNCHANGED <<now, store, sinks, nextId, probe>>

deleteBlock_Delete_WholeResource(p) ==
    /\ At(p, "deleteBlock", "delete")
    /\ IF \E row \in blocks : row.id = calls[p].targetId
       THEN /\ blocks' = {row \in blocks : row.resourceId # calls[p].resourceId}
            /\ Goto(p, "auditLog")
       ELSE /\ Throw(p, 404, "Record not found")
            /\ UNCHANGED blocks
    /\ UNCHANGED <<now, resources, bookings, sinks, nextId, probe>>

\* prisma.resourceBlock.delete resolves; it rejects when the row is gone (P2025).
deleteBlock_Delete(p) ==
    /\ At(p, "deleteBlock", "delete")
    /\ IF \E row \in blocks : row.id = calls[p].targetId
       THEN /\ blocks' = {row \in blocks : row.id # calls[p].targetId}
            /\ Goto(p, "auditLog")
       ELSE /\ Throw(p, 404, "Record not found")
            /\ UNCHANGED blocks
    /\ UNCHANGED <<now, resources, bookings, sinks, nextId, probe>>

\* AuditService.log resolves (it swallows its own failure); return.
deleteBlock_AuditLog(p) ==
    /\ At(p, "deleteBlock", "auditLog")
    /\ \/ /\ auditLogs' = auditLogs \cup
                {[userId |-> calls[p].userId, action |-> "BLOCK_DELETE",
                  entityId |-> calls[p].targetId]}
          /\ Resolved(p, "audit", "returned")
       \/ /\ UNCHANGED auditLogs
          /\ Caught(p, "audit", "returned")
    /\ UNCHANGED <<now, store, notifications, messageLogs, nextId, probe>>

(* ---------------------------------------------------------------------- *)
(* ResourceService.deleteResource                                          *)
(* ---------------------------------------------------------------------- *)
\* The request arrives and prisma.resource.findUnique resolves, with the
\* count of the bookings of the resource that are not CANCELLED.
deleteResource_FindResource(p) ==
    /\ calls[p].pc = "idle"
    /\ \E resourceId \in ResourceIds, userId \in AdminIds :
        LET c == [IdleCall EXCEPT !.op = "deleteResource", !.userId = userId,
                                  !.isAdmin = TRUE, !.resourceId = resourceId]
            count == Cardinality({row \in bookings :
                        row.resourceId = resourceId /\ row.status # "CANCELLED"})
        IN  calls' = [calls EXCEPT ![p] =
                IF ~resources[resourceId].exists
                THEN [c EXCEPT !.pc = "thrown",
                               !.error = Error(404, "Resource not found")]
                ELSE IF count > 0
                THEN [c EXCEPT !.pc = "thrown",
                               !.error = Error(400, "Cannot delete resource with active bookings")]
                ELSE [c EXCEPT !.pc = "delete"]]
    /\ UNCHANGED <<now, store, sinks, nextId, probe>>

\* prisma.resource.delete resolves; it rejects when the row is gone (P2025).
\* bookings_resourceId_fkey and resource_blocks_resourceId_fkey are ON DELETE
\* CASCADE: the bookings and the blocks of the resource go with it.
deleteResource_Delete(p) ==
    /\ At(p, "deleteResource", "delete")
    /\ IF resources[calls[p].resourceId].exists
       THEN /\ resources' = [resources EXCEPT ![calls[p].resourceId] = NoResource]
            /\ bookings' = {row \in bookings : row.resourceId # calls[p].resourceId}
            /\ blocks' = {row \in blocks : row.resourceId # calls[p].resourceId}
            /\ Goto(p, "auditLog")
       ELSE /\ Throw(p, 404, "Record not found")
            /\ UNCHANGED store
    /\ UNCHANGED <<now, sinks, nextId, probe>>

\* AuditService.log resolves (it swallows its own failure); return.
deleteResource_AuditLog(p) ==
    /\ At(p, "deleteResource", "auditLog")
    /\ \/ /\ auditLogs' = auditLogs \cup
                {[userId |-> calls[p].userId, action |-> "RESOURCE_DELETE",
                  entityId |-> calls[p].resourceId]}
          /\ Resolved(p, "audit", "returned")
       \/ /\ UNCHANGED auditLogs
          /\ Caught(p, "audit", "returned")
    /\ UNCHANGED <<now, store, notifications, messageLogs, nextId, probe>>

(* ---------------------------------------------------------------------- *)
(* Specifications                                                          *)
(* ---------------------------------------------------------------------- *)
createBooking(p) ==
    \/ createBooking_Validate(p)
    \/ createBooking_FindResource(p)
    \/ createBooking_CheckBlockOverlap(p)
    \/ createBooking_CheckBookingOverlap(p)
    \/ createBooking_TxFindFirst(p)
    \/ createBooking_TxCreate(p)
    \/ createBooking_Notify(p)
    \/ createBooking_SendConfirmation(p)
    \/ createBooking_AuditLog(p)

cancelBooking(p) ==
    \/ cancelBooking_FindBooking(p)
    \/ cancelBooking_Update(p)
    \/ cancelBooking_Notify(p)
    \/ cancelBooking_SendCancellation(p)
    \/ cancelBooking_AuditLog(p)

createBlock(p) ==
    \/ createBlock_FindResource(p)
    \/ createBlock_FindBooking(p)
    \/ createBlock_FindBlock(p)
    \/ createBlock_Create(p)
    \/ createBlock_AuditLog(p)

deleteBlock(p) ==
    \/ deleteBlock_FindBlock(p)
    \/ deleteBlock_Delete(p)
    \/ deleteBlock_AuditLog(p)

deleteResource(p) ==
    \/ deleteResource_FindResource(p)
    \/ deleteResource_Delete(p)
    \/ deleteResource_AuditLog(p)

Next ==
    \/ Tick
    \/ \E p \in Calls : createBooking(p)
    \/ \E p \in Calls : cancelBooking(p)
    \/ \E p \in Calls : createBlock(p)
    \/ \E p \in Calls : deleteBlock(p)

Spec == Init /\ [][Next]_vars

\* The requests of Next, and requests that delete resources.
NextResources ==
    \/ Next
    \/ \E p \in Calls : deleteResource(p)

SpecResources == Init /\ [][NextResources]_vars

\* Requests that create and cancel bookings only.
NextBookings ==
    \/ Tick
    \/ \E p \in Calls : createBooking(p)
    \/ \E p \in Calls : cancelBooking(p)

SpecBookings == Init /\ [][NextBookings]_vars

\* Requests that create and delete blocks only.
NextBlocks ==
    \/ \E p \in Calls : createBlock(p)
    \/ \E p \in Calls : deleteBlock(p)

SpecBlocks == Init /\ [][NextBlocks]_vars

\* No other request is between its arrival and its end.
Alone(p) == \A q \in Calls \ {p} : calls[q].pc \in {"idle", "returned", "thrown"}

\* The requests of Next, each run to its end before the next one starts.
NextSequential ==
    \/ Tick
    \/ \E p \in Calls : Alone(p) /\ createBooking(p)
    \/ \E p \in Calls : Alone(p) /\ cancelBooking(p)
    \/ \E p \in Calls : Alone(p) /\ createBlock(p)
    \/ \E p \in Calls : Alone(p) /\ deleteBlock(p)

SpecSequential == Init /\ [][NextSequential]_vars

(* ---------------------------------------------------------------------- *)
(* The pure predicates, applied to every input of a bounded set            *)
(* ---------------------------------------------------------------------- *)
InitQuiet ==
    /\ now = 0
    /\ resources = [r \in ResourceIds |-> NoResource]
    /\ bookings = {}
    /\ blocks = {}
    /\ nextId = [booking |-> 1, block |-> 1]
    /\ notifications = {}
    /\ messageLogs = {}
    /\ auditLogs = {}
    /\ calls = [p \in Calls |-> IdleCall]

InitOverlap ==
    /\ InitQuiet
    /\ \E s1 \in ProbeStamps, e1 \in ProbeStamps, s2 \in ProbeStamps, e2 \in ProbeStamps :
        probe = [fn |-> "timeRangesOverlap", in |-> <<s1, e1, s2, e2>>,
                 done |-> FALSE, out |-> <<>>]

\* timeRangesOverlap(start1, end1, start2, end2), and the call with the two
\* ranges exchanged.
Apply_timeRangesOverlap ==
    /\ probe.fn = "timeRangesOverlap" /\ ~probe.done
    /\ probe' = [probe EXCEPT
            !.done = TRUE,
            !.out = [direct |-> timeRangesOverlap(probe.in[1], probe.in[2],
                                                  probe.in[3], probe.in[4]),
                     swapped |-> timeRangesOverlap(probe.in[3], probe.in[4],
                                                   probe.in[1], probe.in[2])]]
    /\ UNCHANGED <<now, store, sinks, nextId, calls>>

SpecOverlap == InitOverlap /\ [][Apply_timeRangesOverlap]_vars

\* One stored row [es, ee) and one candidate [s, e); the row is a booking
\* and a block of resource 1, the booking with the given status.
InitFilters ==
    /\ InitQuiet
    /\ \E es \in ProbeTimes, ee \in ProbeTimes, s \in ProbeTimes, e \in ProbeTimes,
          status \in {"CONFIRMED", "CANCELLED"}, resourceId \in ResourceIds :
        probe = [fn |-> "filters",
                 in |-> [es |-> es, ee |-> ee, s |-> s, e |-> e,
                         status |-> status, resourceId |-> resourceId],
                 done |-> FALSE, out |-> <<>>]

\* Every overlap filter of the services on the same row and candidate.
Apply_filters ==
    /\ probe.fn = "filters" /\ ~probe.done
    /\ LET i == probe.in
           booking == Booking(1, 1, 1, i.es, i.ee, 0, i.status)
           block == Block(1, 1, i.es, i.ee, 2)
       IN  probe' = [probe EXCEPT
            !.done = TRUE,
            !.out = [checkBookingOverlap |->
                        checkBookingOverlapWhere(booking, i.resourceId, i.s, i.e, 0),
                     checkBlockOverlap |->
                        checkBlockOverlapWhere(block, i.resourceId, i.s, i.e),
                     txFindFirst |->
                        txFindFirstWhere(booking, i.resourceId, i.s, i.e),
                     createBlockBooking |->
                        createBlockBookingWhere(booking, i.resourceId, i.s, i.e),
                     createBlockBlock |->
                        createBlockBlockWhere(block, i.resourceId, i.s, i.e),
                     availableBooking |->
                        availableBookingWhere(booking, i.resourceId, i.s, i.e),
                     availableBlock |->
                        availableBlockWhere(block, i.resourceId, i.s, i.e)]]
    /\ UNCHANGED <<now, store, sinks, nextId, calls>>

SpecFilters == InitFilters /\ [][Apply_filters]_vars

\* One call calculateBookingPrice(startTime, endTime, pricePerHour).
InitPrice ==
    /\ InitQuiet
    /\ \E startTime \in PriceStarts, endTime \in PriceEnds, pricePerHour \in PriceRates :
        probe = [fn |-> "calculateBookingPrice",
                 in |-> [startTime |-> startTime, endTime |-> endTime,
                         pricePerHour |-> pricePerHour],
                 done |-> FALSE, out |-> <<>>]

\* The call returns a number; no path of the function throws.
Apply_calculateBookingPrice ==
    /\ probe.fn = "calculateBookingPrice" /\ ~probe.done
    /\ probe' = [probe EXCEPT
            !.done = TRUE,
            !.out = [returned |-> calculateBookingPrice(probe.in.startTime,
                                    probe.in.endTime, probe.in.pricePerHour),
                     error |-> NoError]]
    /\ UNCHANGED <<now, store, sinks, nextId, calls>>

SpecPrice == InitPrice /\ [][Apply_calculateBookingPrice]_vars

(* ---------------------------------------------------------------------- *)
(* CloudbedsService.getAvailableGaps (both versions of the service)        *)
(* ---------------------------------------------------------------------- *)
\* currentGap = null.
NoGap == [startDate |-> 0, endDate |-> 0, nights |-> 0, roomsAvailable |-> 0]

\* Math.min of two numbers.
MathMin(a, b) == IF b < a THEN b ELSE a

getAvailableGaps_Day_NoSkip(acc, day, minNights) ==
    LET date == day.date
        roomsAvailable == day.roomsAvailable
        available == roomsAvailable > 0
    IN  IF available
        THEN IF acc.currentGap = NoGap
             THEN [acc EXCEPT !.currentGap =
                        [startDate |-> date, endDate |-> date, nights |-> 1,
                         roomsAvailable |-> roomsAvailable]]
             ELSE [acc EXCEPT !.currentGap.endDate = date,
                              !.currentGap.nights = @ + 1,
                              !.currentGap.roomsAvailable = MathMin(@, roomsAvailable)]
        ELSE [gaps |-> IF acc.currentGap # NoGap /\ acc.currentGap.nights >= minNights
                       THEN Append(acc.gaps, acc.currentGap)
                       ELSE acc.gaps,
              currentGap |-> NoGap]

\* One turn of the loop over days (the OAuth version of the service).  date
\* is day.date || day.Date || day.checkInDate, 0 when the day has none of
\* them; roomsAvailable is the first of the three count fields that is not
\* falsy, else 0.  A day without date is skipped before anything else.
getAvailableGaps_Day(acc, day, minNights) ==
    LET date == day.date
        roomsAvailable == day.roomsAvailable
        available == roomsAvailable > 0
    IN  IF date = 0
        THEN acc
        ELSE IF available
        THEN IF acc.currentGap = NoGap
             THEN [acc EXCEPT !.currentGap =
                        [startDate |-> date, endDate |-> date, nights |-> 1,
                         roomsAvailable |-> roomsAvailable]]
             ELSE [acc EXCEPT !.currentGap.endDate = date,
                              !.currentGap.nights = @ + 1,
                              !.currentGap.roomsAvailable = MathMin(@, roomsAvailable)]
        ELSE [gaps |-> IF acc.currentGap # NoGap /\ acc.currentGap.nights >= minNights
                       THEN Append(acc.gaps, acc.currentGap)
                       ELSE acc.gaps,
              currentGap |-> NoGap]

\* for (const day of days), from the i-th day on.
RECURSIVE getAvailableGaps_Loop(_, _, _, _)
getAvailableGaps_Loop(acc, days, i, minNights) ==
    IF i > Len(days)
    THEN acc
    ELSE getAvailableGaps_Loop(getAvailableGaps_Day(acc, days[i], minNights),
                               days, i + 1, minNights)

getAvailableGaps_Flush_Drop(acc, minNights) == acc.gaps

\* After the loop: the gap that is still open is pushed under the same test.
getAvailableGaps_Flush(acc, minNights) ==
    IF acc.currentGap # NoGap /\ acc.currentGap.nights >= minNights
    THEN Append(acc.gaps, acc.currentGap)
    ELSE acc.gaps

\* getAvailableGaps(startDate, endDate, minNights) of the OAuth version, on
\* the days getCalendarAvailability has returned: the value it returns.
getAvailableGaps(days, minNights) ==
    IF Len(days) = 0
    THEN [success |-> TRUE, data |-> <<>>, message |-> "No availability data",
          totalGaps |-> 0]
    ELSE LET acc == getAvailableGaps_Loop([gaps |-> <<>>, currentGap |-> NoGap],
                                          days, 1, minNights)
             gaps == getAvailableGaps_Flush(acc, minNights)
         IN  [success |-> TRUE, data |-> gaps, message |-> "",
              totalGaps |-> Len(gaps)]

\* One turn of the loop over days (the API-key version of the service).
getAvailableGapsStable_Day(acc, day, minNights) ==
    IF day.roomsAvailable > 0
    THEN IF acc.currentGap = NoGap
         THEN [acc EXCEPT !.currentGap =
                    [startDate |-> day.date, endDate |-> day.date, nights |-> 1,
                     roomsAvailable |-> day.roomsAvailable]]
         ELSE [acc EXCEPT !.currentGap.endDate = day.date,
                          !.currentGap.nights = @ + 1,
                          !.currentGap.roomsAvailable = MathMin(@, day.roomsAvailable)]
    ELSE [gaps |-> IF acc.currentGap # NoGap /\ acc.currentGap.nights >= minNights
                   THEN Append(acc.gaps, acc.currentGap)
                   ELSE acc.gaps,
          currentGap |-> NoGap]

RECURSIVE getAvailableGapsStable_Loop(_, _, _, _)
getAvailableGapsStable_Loop(acc, days, i, minNights) ==
    IF i > Len(days)
    THEN acc
    ELSE getAvailableGapsStable_Loop(getAvailableGapsStable_Day(acc, days[i], minNights),
                                     days, i + 1, minNights)

\* getAvailableGaps(startDate, endDate, minNights) of the API-key version, on
\* the daily summaries its getCalendarAvailability has built.
getAvailableGapsStable(days, minNights) ==
    LET acc == getAvailableGapsStable_Loop([gaps |-> <<>>, currentGap |-> NoGap],
                                           days, 1, minNights)
        gaps == IF acc.currentGap # NoGap /\ acc.currentGap.nights >= minNights
                THEN Append(acc.gaps, acc.currentGap)
                ELSE acc.gaps
    IN  [success |-> TRUE, data |-> gaps, message |-> "", totalGaps |-> Len(gaps)]

\* The feeds the derivation is tried on.  The i-th day of a feed carries the
\* i-th date of the range, or no date field at all (date = 0); a day without
\* date has no room or MaxRooms rooms.  The daily summaries of the API-key
\* version are built from the generated dates of the range: all are dated.
DatedFeeds ==
    UNION {[1..n -> 0..MaxRooms] : n \in 0..MaxDays}
FeedMarks(n) == [1..n -> BOOLEAN]
Feed(rooms, dated) ==
    [i \in 1..Len(rooms) |->
        [date |-> IF dated[i] THEN i ELSE 0, roomsAvailable |-> rooms[i]]]
MinNightsValues == 1..MaxMinNights

InitGaps ==
    /\ InitQuiet
    /\ \E rooms \in DatedFeeds, minNights \in MinNightsValues :
        \/ probe = [fn |-> "getAvailableGapsStable",
                    in |-> [days |-> Feed(rooms, [i \in 1..Len(rooms) |-> TRUE]),
                            minNights |-> minNights],
                    done |-> FALSE, out |-> <<>>]
        \/ \E dated \in FeedMarks(Len(rooms)) :
            /\ \A i \in 1..Len(rooms) : ~dated[i] => rooms[i] \in {0, MaxRooms}
            /\ probe = [fn |-> "getAvailableGaps",
                        in |-> [days |-> Feed(rooms, dated), minNights |-> minNights],
                        done |-> FALSE, out |-> <<>>]

Apply_getAvailableGaps ==
    /\ probe.fn = "getAvailableGaps" /\ ~probe.done
    /\ probe' = [probe EXCEPT
            !.done = TRUE,
            !.out = getAvailableGaps(probe.in.days, probe.in.minNights)]
    /\ UNCHANGED <<now, store, sinks, nextId, calls>>

Apply_getAvailableGapsStable ==
    /\ probe.fn = "getAvailableGapsStable" /\ ~probe.done
    /\ probe' = [probe EXCEPT
            !.done = TRUE,
            !.out = getAvailableGapsStable(probe.in.days, probe.in.minNights)]
    /\ UNCHANGED <<now, store, sinks, nextId, calls>>

NextGaps ==
    \/ Apply_getAvailableGaps
    \/ Apply_getAvailableGapsStable

SpecGaps == InitGaps /\ [][NextGaps]_vars

(* ---------------------------------------------------------------------- *)
(* CloudbedsService.apiRequest (the OAuth version of the service)          *)
(* ---------------------------------------------------------------------- *)
\* The service instance and one call apiRequest(endpoint, method, params) on
\* it are kept in probe: apiKey, accessToken, refreshToken say whether the
\* field holds a value; tokenFresh says Date.now() < tokenExpiry - 300000;
\* requests and refreshes count the upstream API requests and the posts to
\* the token URL the call has made, retries the times its catch block has
\* refreshed the token and called apiRequest again.
InitApi ==
    /\ InitQuiet
    /\ \E apiKey \in BOOLEAN, accessToken \in BOOLEAN, refreshToken \in BOOLEAN,
          tokenFresh \in BOOLEAN :
        /\ tokenFresh => accessToken
        /\ probe = [fn |-> "apiRequest", pc |-> "idle",
                    apiKey |-> apiKey, accessToken |-> accessToken,
                    refreshToken |-> refreshToken, tokenFresh |-> tokenFresh,
                    requests |-> 0, refreshes |-> 0, retries |-> 0,
                    error |-> NoError]

\* refreshAccessToken: the post to the token URL resolves with an
\* access_token; fresh: the expires_in it names is beyond the 5 min buffer.
refreshAccessToken_Resolved(c, fresh, pc) ==
    [c EXCEPT !.accessToken = TRUE, !.tokenFresh = fresh,
              !.refreshes = @ + 1, !.pc = pc]

\* refreshAccessToken: the post rejects, or names no access_token: the
\* tokens are cleared and the 401 object is thrown.
refreshAccessToken_Rejected(c) ==
    [c EXCEPT !.accessToken = FALSE, !.refreshToken = FALSE, !.tokenFresh = FALSE,
              !.refreshes = @ + 1, !.pc = "thrown",
              !.error = Error(401, "Failed to refresh token. Please re-authorize the app.")]

\* apiRequest is entered (by its caller, or by its own retry): the check for
\* an authentication method, then getAccessToken up to its first await.
apiRequest_Enter ==
    /\ probe.fn = "apiRequest" /\ probe.pc \in {"idle", "retry"}
    /\ probe' =
        IF ~probe.apiKey /\ ~probe.accessToken /\ ~probe.refreshToken
        THEN [probe EXCEPT !.pc = "thrown",
                !.error = Error(401, "Cloudbeds API authentication required. Please set CLOUDBEDS_API_KEY in Railway environment variables.")]
        ELSE IF probe.apiKey
        THEN [probe EXCEPT !.pc = "axios"]
        ELSE IF probe.accessToken /\ probe.tokenFresh
        THEN [probe EXCEPT !.pc = "axios"]
        ELSE IF probe.refreshToken
        THEN [probe EXCEPT !.pc = "getAccessToken"]
        ELSE [probe EXCEPT !.pc = "thrown",
                !.error = Error(401, "Not authenticated with Cloudbeds. Please authorize the app or set API key.")]
    /\ UNCHANGED <<now, store, sinks, nextId, calls>>

\* getAccessToken: its refreshAccessToken resolves or rejects.
getAccessToken_Refresh ==
    /\ probe.fn = "apiRequest" /\ probe.pc = "getAccessToken"
    /\ probe.refreshes < MaxUpstream
    /\ \/ \E fresh \in BOOLEAN :
            probe' = refreshAccessToken_Resolved(probe, fresh, "axios")
       \/ probe' = refreshAccessToken_Rejected(probe)
    /\ UNCHANGED <<now, store, sinks, nextId, calls>>

\* The upstream request resolves (return response.data), or rejects with
\* status 401, or rejects otherwise (another status, a timeout, no response).
\* On 401 with a refresh token held the handler goes on to refresh and retry.
apiRequest_Axios ==
    /\ probe.fn = "apiRequest" /\ probe.pc = "axios"
    /\ probe.requests < MaxUpstream
    /\ \/ probe' = [probe EXCEPT !.requests = @ + 1, !.pc = "returned"]
       \/ probe' = [probe EXCEPT !.requests = @ + 1,
                        !.pc = IF probe.refreshToken THEN "refresh" ELSE "thrown",
                        !.error = IF probe.refreshToken
                                  THEN NoError
                                  ELSE Error(401, "Cloudbeds API authentication failed. Check CLOUDBEDS_API_KEY in .env file.")]
       \/ probe' = [probe EXCEPT !.requests = @ + 1, !.pc = "thrown",
                        !.error = Error(500, "Cloudbeds API request failed")]
    /\ UNCHANGED <<now, store, sinks, nextId, calls>>

\* The refreshAccessToken of the catch block resolves, and apiRequest calls
\* itself with the same arguments; or it rejects and the error is rethrown.
apiRequest_Refresh ==
    /\ probe.fn = "apiRequest" /\ probe.pc = "refresh"
    /\ probe.refreshes < MaxUpstream
    /\ \/ \E fresh \in BOOLEAN :
            probe' = [refreshAccessToken_Resolved(probe, fresh, "retry")
                        EXCEPT !.retries = @ + 1]
       \/ probe' = refreshAccessToken_Rejected(probe)
    /\ UNCHANGED <<now, store, sinks, nextId, calls>>

\* Time passes beyond tokenExpiry - 300000 while the call is pending.
TokenExpires ==
    /\ probe.fn = "apiRequest" /\ probe.tokenFresh
    /\ probe.pc \notin {"returned", "thrown"}
    /\ probe' = [probe EXCEPT !.tokenFresh = FALSE]
    /\ UNCHANGED <<now, store, sinks, nextId, calls>>

NextApi ==
    \/ apiRequest_Enter
    \/ getAccessToken_Refresh
    \/ apiRequest_Axios
    \/ apiRequest_Refresh
    \/ TokenExpires

SpecApi == InitApi /\ [][NextApi]_vars

(* ---------------------------------------------------------------------- *)
(* Properties                                                              *)
(* ---------------------------------------------------------------------- *)
\* Two half-open intervals [s1, e1) and [s2, e2) of instants share an instant.
Intersect(s1, e1, s2, e2) == s1 < e2 /\ s2 < e1

Active(row) == row.status # "CANCELLED"

Finished(p) == calls[p].pc \in {"returned", "thrown"}

\* A request that has thrown takes no further step.
ThrownIsFinal(p) == calls[p].pc = "thrown" => calls'[p] = calls[p]

\* C1: for every resource, in every reachable state of concurrent
\* createBooking and cancelBooking requests, the bookings that are not
\* CANCELLED are pairwise non-overlapping as half-open intervals.
NoDoubleBooking ==
    \A b1 \in bookings, b2 \in bookings :
        (b1.id # b2.id /\ b1.resourceId = b2.resourceId /\ Active(b1) /\ Active(b2))
            => ~Intersect(b1.startTime, b1.endTime, b2.startTime, b2.endTime)

\* C2: when all the requests of a run are createBooking requests with valid,
\* future, pairwise-overlapping intervals on one AVAILABLE resource that no
\* block and no earlier booking occupies there, then once all have finished
\* exactly one has returned a booking and every other has failed with 409.
ExactlyOneWins ==
    LET racing ==
            /\ \A p \in Calls :
                /\ calls[p].op = "createBooking"
                /\ Finished(p)
                /\ calls[p].error.statusCode \notin {400, 404}
                /\ ~\E k \in blocks :
                       /\ k.resourceId = calls[p].resourceId
                       /\ Intersect(k.startTime, k.endTime,
                                    calls[p].startTime, calls[p].endTime)
                /\ ~\E b \in bookings :
                       /\ b.resourceId = calls[p].resourceId
                       /\ Active(b)
                       /\ b.id \notin {calls[q].result : q \in Calls}
                       /\ Intersect(b.startTime, b.endTime,
                                    calls[p].startTime, calls[p].endTime)
            /\ \A p \in Calls, q \in Calls :
                /\ calls[p].resourceId = calls[q].resourceId
                /\ Intersect(calls[p].startTime, calls[p].endTime,
                             calls[q].startTime, calls[q].endTime)
        winners == {p \in Calls : calls[p].pc = "returned" /\ calls[p].result # 0}
    IN  racing =>
            /\ Cardinality(winners) = 1
            /\ \A p \in Calls \ winners :
                calls[p].pc = "thrown" /\ calls[p].error.statusCode = 409

Before(x, y) == x.day < y.day \/ (x.day = y.day /\ x.hour < y.hour)

\* C5: timeRangesOverlap(s1, e1, s2, e2) is true exactly when s1 is before
\* e2 and s2 is before e1; exchanging the two ranges gives the same answer;
\* ranges that touch (e1 = s2 or e2 = s1) do not overlap.
OverlapIsOracle ==
    probe.fn = "timeRangesOverlap" /\ probe.done =>
        LET s1 == probe.in[1]
            e1 == probe.in[2]
            s2 == probe.in[3]
            e2 == probe.in[4]
        IN  /\ probe.out.direct = (Before(s1, e2) /\ Before(s2, e1))
            /\ probe.out.direct = probe.out.swapped
            /\ (e1 = s2 \/ e2 = s1) => ~probe.out.direct

\* Two proper ranges that touch across midnight were tried and do not overlap.
OverlapTouchingTried ==
    /\ probe.fn = "timeRangesOverlap" /\ probe.done
    /\ probe.in[2] = probe.in[3]
    /\ probe.in[2] = [day |-> 1, hour |-> 0]
    /\ probe.in[1] = [day |-> 0, hour |-> 23]
    /\ Before(probe.in[3], probe.in[4])
    /\ ~probe.out.direct

\* C6: for every stored row [es, ee) with es < ee and every candidate [s, e)
\* with s < e, each overlap filter of the services (checkBookingOverlap,
\* checkBlockOverlap, the re-check in the transaction, the two checks of
\* createBlock, the two of getAvailableResources) selects the row exactly
\* when it is a row of the resource asked for (not CANCELLED, for a booking)
\* and es < e and s < ee; touching intervals are not selected.
FiltersAreOracle ==
    probe.fn = "filters" /\ probe.done /\ probe.in.es < probe.in.ee
                         /\ probe.in.s < probe.in.e =>
        LET i == probe.in
            hit == i.resourceId = 1 /\ Intersect(i.es, i.ee, i.s, i.e)
            bookingHit == hit /\ i.status # "CANCELLED"
        IN  /\ probe.out.checkBookingOverlap = bookingHit
            /\ probe.out.txFindFirst = bookingHit
            /\ probe.out.createBlockBooking = bookingHit
            /\ probe.out.availableBooking = bookingHit
            /\ probe.out.checkBlockOverlap = hit
            /\ probe.out.createBlockBlock = hit
            /\ probe.out.availableBlock = hit

\* A row that ends where the candidate starts was tried by every filter and
\* selected by none; so was a candidate strictly inside a row, selected by all.
FiltersTouchingTried ==
    /\ probe.fn = "filters" /\ probe.done
    /\ probe.in.resourceId = 1 /\ probe.in.status = "CONFIRMED"
    /\ probe.in.es < probe.in.ee /\ probe.in.ee = probe.in.s /\ probe.in.s < probe.in.e
    /\ \A f \in DOMAIN probe.out : ~probe.out[f]

\* C7: a createBooking request with start >= end fails with the
\* invalid-interval error, otherwise one with start before the current time
\* fails with the past-booking error, whatever the storage holds; the
\* failing step changes no table, and the failed request does nothing more.
IntervalRejectedFirst ==
    [][\A p \in Calls :
        /\ (calls[p].pc = "idle" /\ calls'[p].op = "createBooking") =>
            LET c == calls'[p]
            IN  /\ c.startTime >= c.endTime =>
                    /\ c.pc = "thrown"
                    /\ c.error = Error(400, "End time must be after start time")
                /\ (c.startTime < c.endTime /\ c.startTime < now) =>
                    /\ c.pc = "thrown"
                    /\ c.error = Error(400, "Cannot book in the past")
                /\ c.result = 0
                /\ UNCHANGED <<store, sinks, nextId>>
        /\ (calls[p].op = "createBooking" /\ calls[p].error.statusCode = 400)
            => (ThrownIsFinal(p) /\ calls[p].result = 0)]_vars

\* A request was rejected as being in the past although its slot is taken.
PastRejectedOnTakenSlot ==
    \E p \in Calls :
        /\ calls[p].op = "createBooking"
        /\ calls[p].error = Error(400, "Cannot book in the past")
        /\ \E b \in bookings :
            /\ b.resourceId = calls[p].resourceId /\ Active(b)
            /\ Intersect(b.startTime, b.endTime, calls[p].startTime, calls[p].endTime)

\* C8: a createBooking request that reads no resource row fails with
\* resource-not-found, one that reads a row with status UNAVAILABLE or
\* MAINTENANCE fails with resource-unavailable; the failing step changes
\* no table and the failed request does nothing more, so it inserts nothing.
ResourceRejected ==
    [][\A p \in Calls :
        /\ (At(p, "createBooking", "findResource") /\ calls'[p] # calls[p]) =>
            LET r == resources[calls[p].resourceId]
            IN  /\ ~r.exists =>
                    /\ calls'[p].pc = "thrown"
                    /\ calls'[p].error = Error(404, "Resource not found")
                /\ (r.exists /\ r.status \in {"UNAVAILABLE", "MAINTENANCE"}) =>
                    /\ calls'[p].pc = "thrown"
                    /\ calls'[p].error = Error(400, "Resource is not available for booking")
                /\ calls'[p].result = 0
                /\ UNCHANGED <<store, sinks, nextId>>
        /\ (calls[p].op = "createBooking" /\ calls[p].error.statusCode \in {400, 404})
            => (ThrownIsFinal(p) /\ calls[p].result = 0)]_vars

\* A request on a resource under maintenance was rejected as unavailable.
MaintenanceRejected ==
    \E p \in Calls :
        /\ calls[p].op = "createBooking"
        /\ calls[p].error = Error(400, "Resource is not available for booking")
        /\ resources[calls[p].resourceId].status = "MAINTENANCE"

\* C9: the guard of createBooking names its reason: the block check fails
\* with 'blocked' exactly when a block of the resource overlaps the interval
\* (also when a booking overlaps it too); the booking check, reached only
\* past the block check, fails with 'already booked' exactly when a booking
\* of the resource that is not CANCELLED overlaps it; a rejected request
\* inserts nothing.
GuardNamesReason ==
    [][\A p \in Calls :
        LET c == calls[p]
            blocked == \E k \in blocks :
                /\ k.resourceId = c.resourceId
                /\ Intersect(k.startTime, k.endTime, c.startTime, c.endTime)
            taken == \E b \in bookings :
                /\ b.resourceId = c.resourceId /\ Active(b)
                /\ Intersect(b.startTime, b.endTime, c.startTime, c.endTime)
        IN  /\ (At(p, "createBooking", "checkBlockOverlap") /\ calls'[p] # c) =>
                /\ IF blocked
                   THEN /\ calls'[p].pc = "thrown"
                        /\ calls'[p].error = Error(409, "This time slot is blocked")
                   ELSE calls'[p].pc = "checkBookingOverlap"
                /\ UNCHANGED <<store, sinks, nextId>>
            /\ (At(p, "createBooking", "checkBookingOverlap") /\ calls'[p] # c) =>
                /\ IF taken
                   THEN /\ calls'[p].pc = "thrown"
                        /\ calls'[p].error = Error(409, "This time slot is already booked")
                   ELSE calls'[p].pc = "txFindFirst"
                /\ UNCHANGED <<store, sinks, nextId>>
            /\ (c.op = "createBooking" /\ c.error.statusCode = 409)
                => (ThrownIsFinal(p) /\ c.result = 0)]_vars

\* A request whose interval overlaps a block and a booking was rejected as blocked.
BlockedReportedFirst ==
    \E p \in Calls :
        /\ calls[p].op = "createBooking"
        /\ calls[p].error = Error(409, "This time slot is blocked")
        /\ \E b \in bookings :
            /\ b.resourceId = calls[p].resourceId /\ Active(b)
            /\ Intersect(b.startTime, b.endTime, calls[p].startTime, calls[p].endTime)
        /\ \E k \in blocks :
            /\ k.resourceId = calls[p].resourceId
            /\ Intersect(k.startTime, k.endTime, calls[p].startTime, calls[p].endTime)

\* C10: when the re-check inside the transaction of a createBooking request
\* runs while a booking of the resource that is not CANCELLED overlaps the
\* interval (committed after the request passed its guard), the request
\* fails with the 'just booked by another user' error and inserts nothing.
RecheckSeesCommitted ==
    [][\A p \in Calls :
        LET c == calls[p]
            taken == \E b \in bookings :
                /\ b.resourceId = c.resourceId /\ Active(b)
                /\ Intersect(b.startTime, b.endTime, c.startTime, c.endTime)
        IN  /\ (At(p, "createBooking", "txFindFirst") /\ calls'[p] # c /\ taken) =>
                /\ calls'[p].pc = "thrown"
                /\ calls'[p].error =
                        Error(409, "This time slot was just booked by another user")
                /\ calls'[p].result = 0
                /\ UNCHANGED <<store, sinks, nextId>>
            /\ (c.op = "createBooking" /\ c.error.statusCode = 409)
                => (ThrownIsFinal(p) /\ c.result = 0)
            /\ (c.op = "createBooking" /\ c.result # 0) => c.error = NoError]_vars

\* A request lost the race: it passed its guard, another request committed an
\* overlapping booking, and the re-check rejected it.
RaceLost ==
    \E p \in Calls, q \in Calls :
        /\ p # q
        /\ calls[p].op = "createBooking" /\ calls[q].op = "createBooking"
        /\ calls[p].error = Error(409, "This time slot was just booked by another user")
        /\ calls[p].result = 0
        /\ \E b \in bookings :
            /\ b.id = calls[q].result /\ Active(b)
            /\ b.resourceId = calls[p].resourceId
            /\ Intersect(b.startTime, b.endTime, calls[p].startTime, calls[p].endTime)

\* The side effects of a booking request, in the order of the calls.
SideEffects == <<"notification", "message", "audit">>

\* C11: every booking row that appears was inserted by a createBooking
\* request at its insert, with status CONFIRMED, the user, resource, start
\* and end of the request, and the price calculateBookingPrice gives for
\* them at the hourly rate the request read from the resource row; the
\* request keeps these values from its arrival on; no step of any request
\* changes the status of a row to PENDING or COMPLETED.
InsertedAsConfirmed ==
    [][/\ \A b \in bookings' : (\A o \in bookings : o.id # b.id) =>
            \E p \in Calls :
                /\ At(p, "createBooking", "txCreate")
                /\ calls'[p].result = b.id
                /\ b = Booking(b.id, calls[p].userId, calls[p].resourceId,
                               calls[p].startTime, calls[p].endTime,
                               calculateBookingPrice(calls[p].startTime,
                                   calls[p].endTime, calls[p].pricePerHour),
                               "CONFIRMED")
       /\ \A b \in bookings', o \in bookings :
            (o.id = b.id /\ o.status # b.status) => b.status \notin {"PENDING", "COMPLETED"}
       /\ \A p \in Calls :
            /\ (At(p, "createBooking", "findResource") /\ calls'[p].pc = "checkBlockOverlap")
                => calls'[p].pricePerHour = resources[calls[p].resourceId].pricePerHour
            /\ (calls[p].op = "createBooking" /\ calls[p].pc # "findResource")
                => calls'[p].pricePerHour = calls[p].pricePerHour
            /\ calls[p].op = "createBooking" =>
                /\ calls'[p].userId = calls[p].userId
                /\ calls'[p].resourceId = calls[p].resourceId
                /\ calls'[p].startTime = calls[p].startTime
                /\ calls'[p].endTime = calls[p].endTime]_vars

\* A request inserted a CONFIRMED booking of the resource with the second
\* rate, priced at that rate.
ConfirmedInserted ==
    \E p \in Calls, b \in bookings :
        /\ calls[p].op = "createBooking" /\ calls[p].result = b.id
        /\ b.status = "CONFIRMED" /\ b.userId = calls[p].userId
        /\ b.resourceId = 2 /\ resources[2].pricePerHour = SeedPrice2
        /\ b.endTime - b.startTime = 2
        /\ b.totalPrice = 117

\* Rounding of a non-negative rational n/d to the nearest integer, halves to
\* the even neighbour.
RoundDivHalfEven(n, d) ==
    LET q == n \div d
        r == n % d
    IN  IF 2 * r > d \/ (2 * r = d /\ q % 2 = 1) THEN q + 1 ELSE q

\* C12: for start < end, calculateBookingPrice(start, end, rate) is the
\* duration in hours times the hourly rate rounded to two decimals: with the
\* duration in whole minutes and the rate in hundredths, the result in
\* hundredths is minutes * rate / 60 rounded to the nearest integer (a half
\* rounded up, or to the even neighbour); 2.5 hours at 50.00 give 125.00.
PriceIsRounded ==
    (probe.fn = "calculateBookingPrice" /\ probe.done
        /\ probe.in.startTime < probe.in.endTime) =>
        LET minutes == probe.in.endTime - probe.in.startTime
            rate == probe.in.pricePerHour
        IN  /\ \/ probe.out.returned = RoundDiv(minutes * rate, 60)
               \/ probe.out.returned = RoundDivHalfEven(minutes * rate, 60)
            /\ (minutes = 150 /\ rate = 5000) => probe.out.returned = 12500

\* C13: calculateBookingPrice(start, end, rate) with end <= start fails with
\* the invalid-interval error; it returns no zero or negative price.
PriceRejectsInvalidInterval ==
    (probe.fn = "calculateBookingPrice" /\ probe.done
        /\ probe.in.endTime <= probe.in.startTime) =>
        probe.out.error # NoError

\* C14: in createBooking and cancelBooking, whichever of the three side
\* effects reject, the request does not fail: it has its booking as
\* result and no error, the inserted row (the CANCELLED status) is in
\* storage, and a request that has returned has called all three.
SideEffectFailuresContained ==
    \A p \in Calls : calls[p].op \in {"createBooking", "cancelBooking"} =>
        /\ calls[p].failed # {} =>
            /\ calls[p].pc # "thrown"
            /\ calls[p].error = NoError
            /\ calls[p].result # 0
            /\ \E b \in bookings :
                /\ b.id = calls[p].result
                /\ calls[p].op = "cancelBooking" => b.status = "CANCELLED"
        /\ calls[p].pc = "returned" =>
            /\ calls[p].attempts = SideEffects
            /\ calls[p].result # 0

\* A createBooking and a cancelBooking request returned although each of
\* their three side effects rejected.
AllSideEffectsFailed ==
    \E p \in Calls, q \in Calls :
        /\ calls[p].op = "createBooking" /\ calls[q].op = "cancelBooking"
        /\ calls[p].pc = "returned" /\ calls[q].pc = "returned"
        /\ calls[p].failed = {"notification", "message", "audit"}
        /\ calls[q].failed = {"notification", "message", "audit"}
        /\ notifications = {} /\ messageLogs = {} /\ auditLogs = {}

\* C15: a createBooking request calls each side effect at most once, in the
\* order notification, message, audit, never again after a rejection, and
\* only once its insert is committed; a request that failed has called none,
\* and every record of a side effect names a booking that was inserted.
SideEffectsOnceAfterCommit ==
    /\ \A p \in Calls : calls[p].op = "createBooking" =>
        /\ \E n \in 0..Len(SideEffects) : calls[p].attempts = SubSeq(SideEffects, 1, n)
        /\ calls[p].attempts # <<>> =>
            /\ calls[p].result # 0
            /\ calls[p].result < nextId.booking
        /\ calls[p].pc \in {"idle", "findResource", "checkBlockOverlap",
                             "checkBookingOverlap", "txFindFirst", "txCreate", "thrown"}
            => (calls[p].attempts = <<>> /\ calls[p].result = 0)
    /\ \A n \in notifications : n.type = "BOOKING_CREATED" =>
            \E p \in Calls : calls[p].op = "createBooking" /\ calls[p].result = n.bookingId
    /\ \A m \in messageLogs : m.content = "confirmed" =>
            \E p \in Calls : calls[p].op = "createBooking" /\ calls[p].result = m.bookingId
    /\ \A a \in auditLogs : a.action = "BOOKING_CREATE" =>
            \E p \in Calls : calls[p].op = "createBooking" /\ calls[p].result = a.entityId

\* One request returned with its three side effects called, one of them
\* rejected; another lost the race in the transaction and called none.
LoserCalledNoSideEffect ==
    \E p \in Calls, q \in Calls :
        /\ calls[p].op = "createBooking" /\ calls[p].pc = "returned"
        /\ calls[p].attempts = SideEffects /\ calls[p].failed = {"message"}
        /\ calls[q].op = "createBooking" /\ calls[q].pc = "thrown"
        /\ calls[q].error.statusCode = 409
        /\ calls[q].attempts = <<>>

\* C16: a booking row that is CANCELLED is changed by no step of any
\* request; a cancelBooking request of its owner or of an admin that reads
\* it CANCELLED fails with 'already cancelled', changes no row and does
\* nothing more.
CancelledIsTerminal ==
    [][/\ \A o \in bookings : o.status = "CANCELLED" => o \in bookings'
       /\ \A p \in Calls :
            /\ (calls[p].pc = "idle" /\ calls'[p].op = "cancelBooking") =>
                \A o \in bookings :
                    (/\ o.id = calls'[p].targetId
                     /\ o.status = "CANCELLED"
                     /\ (calls'[p].isAdmin \/ o.userId = calls'[p].userId)) =>
                        /\ calls'[p].pc = "thrown"
                        /\ calls'[p].error = Error(400, "Booking is already cancelled")
                        /\ UNCHANGED <<store, sinks, nextId>>
            /\ (calls[p].op = "cancelBooking" /\ calls[p].error.statusCode = 400)
                => (ThrownIsFinal(p) /\ calls[p].result = 0)]_vars

\* A booking was cancelled by one request, and a later request of its owner
\* to cancel it again was rejected as already cancelled.
CancelAgainRejected ==
    \E p \in Calls, q \in Calls, b \in bookings :
        /\ calls[q].op = "cancelBooking" /\ calls[q].result = b.id
        /\ calls[p].op = "cancelBooking" /\ calls[p].targetId = b.id
        /\ calls[p].userId = b.userId
        /\ calls[p].error = Error(400, "Booking is already cancelled")
        /\ b.status = "CANCELLED"

\* C17: of the cancelBooking requests of authorized users on one CONFIRMED
\* booking, run one after the other or concurrently, at most one succeeds
\* (and so at most one emits the side effects of the cancellation).
ExactlyOneCancels ==
    \A p \in Calls, q \in Calls :
        (/\ p # q
         /\ calls[p].op = "cancelBooking" /\ calls[q].op = "cancelBooking"
         /\ calls[p].targetId = calls[q].targetId
         /\ calls[p].found = "CONFIRMED" /\ calls[q].found = "CONFIRMED")
            => ~(calls[p].result # 0 /\ calls[q].result # 0)

\* C18: a cancelBooking request of a user who is neither an admin nor the
\* owner of the booking fails with 'not authorized' whatever the status of
\* the booking, changes no row and does nothing more; a request of the owner
\* or of an admin on a booking that is not CANCELLED goes on to the update,
\* which sets the status CANCELLED and makes the booking the result; a row
\* becomes CANCELLED only in the update of a request of its owner or of an
\* admin.
CancelAuthorized ==
    [][/\ \A p \in Calls :
            /\ (calls[p].pc = "idle" /\ calls'[p].op = "cancelBooking") =>
                LET c == calls'[p]
                IN  /\ c.isAdmin = (c.userId \in AdminIds)
                    /\ \A o \in bookings : o.id = c.targetId =>
                        /\ (~c.isAdmin /\ o.userId # c.userId) =>
                            /\ c.pc = "thrown"
                            /\ c.error = Error(403, "Not authorized to cancel this booking")
                            /\ UNCHANGED <<store, sinks, nextId>>
                        /\ ((c.isAdmin \/ o.userId = c.userId) /\ o.status # "CANCELLED")
                            => c.pc = "update"
            /\ (At(p, "cancelBooking", "update") /\ calls'[p] # calls[p]) =>
                /\ calls'[p].pc = "notify"
                /\ calls'[p].result = calls[p].targetId
                /\ \E b \in bookings' :
                        b.id = calls[p].targetId /\ b.status = "CANCELLED"
            /\ (calls[p].op = "cancelBooking" /\ calls[p].result # 0) =>
                (calls'[p].error = NoError /\ calls'[p].result = calls[p].result)
            /\ (calls[p].op = "cancelBooking" /\ calls[p].error.statusCode = 403)
                => (ThrownIsFinal(p) /\ calls[p].result = 0)
       /\ \A o \in bookings, b \in bookings' :
            (o.id = b.id /\ o.status # "CANCELLED" /\ b.status = "CANCELLED") =>
                \E p \in Calls :
                    /\ At(p, "cancelBooking", "update")
                    /\ calls[p].targetId = o.id
                    /\ calls'[p].result = o.id
                    /\ (calls[p].isAdmin \/ calls[p].userId = o.userId)]_vars

\* A user who is neither admin nor owner was rejected as not authorized on a
\* booking that is already CANCELLED.
StrangerRejectedOnCancelled ==
    \E p \in Calls, o \in bookings :
        /\ calls[p].op = "cancelBooking" /\ calls[p].targetId = o.id
        /\ ~calls[p].isAdmin /\ calls[p].userId # o.userId
        /\ o.status = "CANCELLED"
        /\ calls[p].error = Error(403, "Not authorized to cancel this booking")

\* C19: the status of a booking row changes only from PENDING or CONFIRMED
\* to CANCELLED; a COMPLETED booking is never made CANCELLED.
OnlyOpenBookingsCancelled ==
    [][\A o \in bookings, b \in bookings' :
        (o.id = b.id /\ o.status # b.status) =>
            (b.status = "CANCELLED" /\ o.status \in {"PENDING", "CONFIRMED"})]_vars

\* C20: no step of a createBooking, cancelBooking, createBlock, deleteBlock
\* or deleteResource request removes a booking row: every id in the table
\* before the step is in it after the step.
BookingRowsKept ==
    [][\A o \in bookings : \E b \in bookings' : b.id = o.id]_vars

\* C21: a deleteResource request that finds a booking of the resource that is
\* not CANCELLED fails and leaves the store as it is; and in every
\* interleaving of deleteResource with createBooking no step removes a
\* resource while a booking that is not CANCELLED references it, so that no
\* such booking is lost with its resource.
ActiveBookingsKeepResource ==
    [][/\ \A p \in Calls :
            (calls[p].pc = "idle" /\ calls'[p].op = "deleteResource") =>
                ((\E o \in bookings : o.resourceId = calls'[p].resourceId /\ Active(o))
                    => /\ calls'[p].pc = "thrown"
                       /\ UNCHANGED store)
       /\ \A r \in ResourceIds :
            (resources[r].exists /\ ~resources'[r].exists) =>
                ~\E o \in bookings : o.resourceId = r /\ Active(o)]_vars

\* C22: a createBlock request with start >= end fails as an invalid interval;
\* one for a resource that does not exist fails as resource not found; one
\* with a valid interval on an existing resource fails as a conflict with a
\* booking when its interval overlaps a booking of the resource that is not
\* CANCELLED, whatever the blocks are, and otherwise as a conflict with a
\* block when it overlaps a block of the resource.  No failing step inserts
\* a block or changes a booking, and a failed request takes no further step.
createBlockRejects ==
    [][\A p \in Calls :
        LET c == calls'[p]
            booked == \E o \in bookings :
                        /\ o.resourceId = calls[p].resourceId /\ Active(o)
                        /\ Intersect(o.startTime, o.endTime,
                                     calls[p].startTime, calls[p].endTime)
            blocked == \E k \in blocks :
                        /\ k.resourceId = calls[p].resourceId
                        /\ Intersect(k.startTime, k.endTime,
                                     calls[p].startTime, calls[p].endTime)
        IN  /\ (calls[p].pc = "idle" /\ c.op = "createBlock") =>
                /\ c.startTime >= c.endTime =>
                        c.error = Error(400, "End time must be after start time")
                /\ (c.startTime < c.endTime /\ ~resources[c.resourceId].exists) =>
                        c.error = Error(404, "Resource not found")
                /\ (c.startTime < c.endTime /\ resources[c.resourceId].exists) =>
                        c.pc = "findBooking"
                /\ c.error # NoError => c.pc = "thrown"
                /\ UNCHANGED <<store, nextId>>
            /\ (At(p, "createBlock", "findBooking") /\ c # calls[p]) =>
                /\ IF booked
                   THEN /\ c.pc = "thrown"
                        /\ c.error = Error(409, "Cannot block time slot with existing bookings")
                   ELSE c.pc = "findBlock" /\ c.error = NoError
                /\ UNCHANGED <<store, nextId>>
            /\ (At(p, "createBlock", "findBlock") /\ c # calls[p]) =>
                /\ IF blocked
                   THEN /\ c.pc = "thrown"
                        /\ c.error = Error(409, "Block overlaps with existing block")
                   ELSE c.pc = "create" /\ c.error = NoError
                /\ UNCHANGED <<store, nextId>>
            /\ (c.op = "createBlock" /\ calls[p].pc # "thrown" /\ c.pc = "thrown") =>
                UNCHANGED <<store, nextId>>
            /\ calls[p].op = "createBlock" => ThrownIsFinal(p)]_vars

\* A createBlock request whose interval overlaps both a booking that is not
\* CANCELLED and a block of the resource failed as a conflict with a booking.
BookingConflictReportedFirst ==
    \E p \in Calls, o \in bookings, k \in blocks :
        /\ calls[p].op = "createBlock" /\ calls[p].pc = "thrown"
        /\ calls[p].error = Error(409, "Cannot block time slot with existing bookings")
        /\ o.resourceId = calls[p].resourceId /\ Active(o)
        /\ Intersect(o.startTime, o.endTime, calls[p].startTime, calls[p].endTime)
        /\ k.resourceId = calls[p].resourceId
        /\ Intersect(k.startTime, k.endTime, calls[p].startTime, calls[p].endTime)

\* C23: the block a successful createBlock(data, creatorId) has inserted
\* carries the resource, the start and the end of the request, and
\* creatorId as its creator.
BlockInsertedWithCreator ==
    \A p \in Calls, k \in blocks :
        (calls[p].op = "createBlock" /\ calls[p].result # 0 /\ k.id = calls[p].result) =>
            /\ k.resourceId = calls[p].resourceId
            /\ k.startTime = calls[p].startTime
            /\ k.endTime = calls[p].endTime
            /\ k.createdBy = calls[p].userId

\* C24: a deleteBlock request for an id that no block has fails as not found
\* and changes nothing; one for an existing block removes exactly that block
\* and leaves every other block, every booking and every resource as they
\* are; and a createBooking request whose interval no block of the resource
\* overlaps any more is not rejected as blocked.
deleteBlockRemovesOne ==
    [][\A p \in Calls :
        LET c == calls'[p]
            target == {k \in blocks : k.id = calls'[p].targetId}
        IN  /\ (calls[p].pc = "idle" /\ c.op = "deleteBlock") =>
                /\ IF target = {}
                   THEN c.pc = "thrown" /\ c.error = Error(404, "Block not found")
                   ELSE c.pc = "delete"
                /\ UNCHANGED <<store, nextId>>
            /\ (At(p, "deleteBlock", "delete") /\ c # calls[p]) =>
                /\ IF target = {}
                   THEN c.pc = "thrown" /\ c.error.statusCode = 404
                   ELSE c.pc = "auditLog" /\ c.error = NoError
                /\ blocks' = blocks \ target
                /\ Cardinality(target) <= 1
                /\ UNCHANGED <<resources, bookings, nextId>>
            /\ (calls[p].op = "deleteBlock" /\ calls[p].pc # "delete") =>
                (blocks' = blocks \/ \E q \in Calls \ {p} : calls'[q] # calls[q])
            /\ calls[p].op = "deleteBlock" => ThrownIsFinal(p)
            /\ (At(p, "createBooking", "checkBlockOverlap") /\ c # calls[p]) =>
                ((~\E k \in blocks :
                        /\ k.resourceId = calls[p].resourceId
                        /\ Intersect(k.startTime, k.endTime,
                                     calls[p].startTime, calls[p].endTime))
                    => c.pc = "checkBookingOverlap" /\ c.error = NoError)]_vars

\* A block was deleted, and a createBooking request for an interval of the
\* same resource that the block overlapped has inserted its booking.
BookedAfterUnblock ==
    \E p \in Calls, q \in Calls :
        /\ calls[p].op = "deleteBlock" /\ calls[p].pc = "returned"
        /\ calls[q].op = "createBooking" /\ calls[q].result # 0
        /\ calls[q].resourceId = calls[p].resourceId
        /\ Intersect(calls[p].startTime, calls[p].endTime,
                     calls[q].startTime, calls[q].endTime)
        /\ \E b \in bookings : b.id = calls[q].result

\* The maximal runs of consecutive days with roomsAvailable > 0, as pairs of
\* the positions of their first and last day.
MaximalRuns(days) ==
    {r \in (1..Len(days)) \X (1..Len(days)) :
        /\ r[1] <= r[2]
        /\ \A k \in r[1]..r[2] : days[k].roomsAvailable > 0
        /\ (r[1] = 1 \/ days[r[1] - 1].roomsAvailable <= 0)
        /\ (r[2] = Len(days) \/ days[r[2] + 1].roomsAvailable <= 0)}

\* The gap the claim gives for a run.
GapOfRun(days, r) ==
    [startDate |-> days[r[1]].date, endDate |-> days[r[2]].date,
     nights |-> r[2] - r[1] + 1,
     roomsAvailable |-> CHOOSE m \in {days[k].roomsAvailable : k \in r[1]..r[2]} :
                            \A k \in r[1]..r[2] : m <= days[k].roomsAvailable]

\* C25: on a feed whose days all have a date and for minNights >= 1, both
\* versions of getAvailableGaps return, in the order of the feed, exactly one
\* gap for every maximal run of days with roomsAvailable > 0 that has at least
\* minNights days, a run that reaches the end of the feed included, and
\* nothing else; startDate and endDate are the dates of the first and the
\* last day of the run, nights its length, roomsAvailable the minimum over it.
GapsAreLongRuns ==
    (/\ probe.fn \in {"getAvailableGaps", "getAvailableGapsStable"}
     /\ probe.done
     /\ \A i \in 1..Len(probe.in.days) : probe.in.days[i].date # 0) =>
        LET days == probe.in.days
            gaps == probe.out.data
            long == {r \in MaximalRuns(days) : r[2] - r[1] + 1 >= probe.in.minNights}
        IN  /\ probe.out.success
            /\ probe.out.totalGaps = Len(gaps)
            /\ Len(gaps) = Cardinality(long)
            /\ \A r \in long : \E k \in 1..Len(gaps) : gaps[k] = GapOfRun(days, r)
            /\ \A k \in 1..Len(gaps) : \E r \in long : gaps[k] = GapOfRun(days, r)
            /\ \A k \in 1..Len(gaps), l \in 1..Len(gaps) :
                    k < l => gaps[k].endDate < gaps[l].startDate

\* The feed 2, 1, 0, 3, 3 with minNights = 2 gave the gaps of days 1..2
\* (minimum 1) and of days 4..5 (minimum 3), the second one flushed at the end.
TwoGapsOfExample ==
    /\ probe.fn \in {"getAvailableGaps", "getAvailableGapsStable"}
    /\ probe.done
    /\ probe.in.minNights = 2
    /\ probe.in.days = Feed(<<2, 1, 0, 3, 3>>, <<TRUE, TRUE, TRUE, TRUE, TRUE>>)
    /\ probe.out.data =
            <<[startDate |-> 1, endDate |-> 2, nights |-> 2, roomsAvailable |-> 1],
              [startDate |-> 4, endDate |-> 5, nights |-> 2, roomsAvailable |-> 3]>>

\* The days of a feed that have a date, in the order of the feed.
DatedDays(days) == SelectSeq(days, LAMBDA day : day.date # 0)

RowsHaveStartBeforeEnd ==
    /\ \A b \in bookings : b.startTime < b.endTime
    /\ \A k \in blocks : k.startTime < k.endTime

\* A booking inserted by a createBooking request and a block inserted by a
\* createBlock request are both in the store.
BookingAndBlockInserted ==
    \E p \in Calls, q \in Calls, b \in bookings, k \in blocks :
        /\ calls[p].op = "createBooking" /\ calls[p].result = b.id
        /\ calls[q].op = "createBlock" /\ calls[q].result = k.id

\* C28: when the createBooking, cancelBooking, createBlock and deleteBlock
\* requests of a behaviour do not interleave (each runs to its end before the
\* next one starts), every reachable state has no two overlapping bookings
\* of one resource that are not CANCELLED, no block overlapping such a
\* booking of its resource, and no two overlapping blocks of one resource.
SequentialKeepsInvariants ==
    /\ \A b1 \in bookings, b2 \in bookings :
        (b1.id # b2.id /\ b1.resourceId = b2.resourceId /\ Active(b1) /\ Active(b2))
            => ~Intersect(b1.startTime, b1.endTime, b2.startTime, b2.endTime)
    /\ \A k \in blocks, b \in bookings :
        (k.resourceId = b.resourceId /\ Active(b))
            => ~Intersect(k.startTime, k.endTime, b.startTime, b.endTime)
    /\ \A k1 \in blocks, k2 \in blocks :
        (k1.id # k2.id /\ k1.resourceId = k2.resourceId)
            => ~Intersect(k1.startTime, k1.endTime, k2.startTime, k2.endTime)

\* A createBlock request has inserted a block and, after it, a createBooking
\* request for an overlapping interval of the resource was rejected as blocked.
BlockedAfterBlockInserted ==
    \E p \in Calls, q \in Calls, k \in blocks :
        /\ calls[p].op = "createBlock" /\ calls[p].pc = "returned"
        /\ calls[p].result = k.id
        /\ calls[q].op = "createBooking" /\ calls[q].pc = "thrown"
        /\ calls[q].error = Error(409, "This time slot is blocked")
        /\ calls[q].resourceId = k.resourceId
        /\ Intersect(k.startTime, k.endTime, calls[q].startTime, calls[q].endTime)
        /\ \A k2 \in blocks \ {k} :
                ~Intersect(k2.startTime, k2.endTime,
                           calls[q].startTime, calls[q].endTime)

\* The interval of request q is free: besides the row q itself has inserted,
\* no booking of its resource that is not CANCELLED and no block of its
\* resource overlaps it.
SlotFree(q) ==
    /\ ~\E b \in bookings :
            /\ b.resourceId = calls[q].resourceId /\ Active(b)
            /\ ~(calls[q].op = "createBooking" /\ b.id = calls[q].result)
            /\ Intersect(b.startTime, b.endTime, calls[q].startTime, calls[q].endTime)
    /\ ~\E k \in blocks :
            /\ k.resourceId = calls[q].resourceId
            /\ ~(calls[q].op = "createBlock" /\ k.id = calls[q].result)
            /\ Intersect(k.startTime, k.endTime, calls[q].startTime, calls[q].endTime)

\* A booking that a cancelBooking request has made CANCELLED overlaps the
\* interval of request q on its resource.
OverCancelled(q) ==
    \E p \in Calls, b \in bookings :
        /\ calls[p].op = "cancelBooking" /\ calls[p].pc = "returned"
        /\ calls[p].result = b.id /\ b.status = "CANCELLED"
        /\ b.resourceId = calls[q].resourceId
        /\ Intersect(b.startTime, b.endTime, calls[q].startTime, calls[q].endTime)

\* C29: cancellation frees the slot.  With requests that run one after
\* another: once cancelBooking has succeeded on a booking, no step of a
\* createBooking or createBlock request for an interval that overlapped only
\* that booking (valid, not in the past, on an AVAILABLE resource) fails, so
\* the request succeeds; while the booking is not CANCELLED the overlap check
\* of the same request rejects it with 409.
CancellationFreesSlot ==
    [][\A q \in Calls :
        LET c == calls'[q]
            taken == \E b \in bookings :
                        /\ b.resourceId = calls[q].resourceId /\ Active(b)
                        /\ Intersect(b.startTime, b.endTime,
                                     calls[q].startTime, calls[q].endTime)
        IN  /\ (/\ calls[q].op \in {"createBooking", "createBlock"}
                /\ calls[q].pc \notin {"idle", "returned", "thrown"}
                /\ c # calls[q]
                /\ resources[calls[q].resourceId] = Resource("AVAILABLE",
                        resources[calls[q].resourceId].pricePerHour)
                /\ OverCancelled(q)
                /\ SlotFree(q)) =>
                    /\ c.pc # "thrown"
                    /\ c.pc = "returned" => c.result # 0
            /\ (At(q, "createBooking", "checkBookingOverlap") /\ c # calls[q] /\ taken) =>
                    (c.pc = "thrown" /\ c.error.statusCode = 409)
            /\ (At(q, "createBlock", "findBooking") /\ c # calls[q] /\ taken) =>
                    (c.pc = "thrown" /\ c.error.statusCode = 409)]_vars

\* C30: one call of apiRequest makes at most two upstream requests, and
\* refreshes the token and retries at most once in answer to a 401, whatever
\* the upstream answers (also when it answers 401 to every request and every
\* refresh succeeds).
RetriesOnce ==
    probe.fn = "apiRequest" =>
        (probe.requests <= 2 /\ probe.retries <= 1)

====
